---------------------------- MODULE Spec2Model ----------------------------
(***************************************************************************)
(* Model of the adaptive risk-scoring and challenge-response engine of     *)
(* hanzkeren/ucar-upgrade: the Token Service (utils/nonce.ts: signPayload, *)
(* verifySignedPayload), the verification and nonce endpoints              *)
(* (pages/api/verify-challenge.ts, pages/api/challenge-nonce.ts), the      *)
(* Risk Scorer (utils/botCheck.ts: isBot) and the Decision Engine          *)
(* (middleware.ts).                                                        *)
(*                                                                         *)
(* Strings are sequences of code units.  Token strings carry the real     *)
(* ASCII codes of the base64 alphabets and of the separator, so that the   *)
(* encoder and the decoder are modelled bit by bit.  Time is counted in    *)
(* minutes.  Probabilities are counted in 1/10000.                         *)
(***************************************************************************)
EXTENDS Integers, Sequences, FiniteSets, TLC

VARIABLES
  now,        \* Date.now(), in minutes
  signKeyCfg, \* SIGN_KEY of Edge Config / env: a key string, or NoKey (none)
  issued,     \* records of what signPayload has returned so far
  last,       \* the last operation: its input, the time and what it returned
  cfg,        \* the other keys of Edge Config / env
  mem,        \* MEM of utils/rateLimiter.ts
  ipqsCache,  \* IPQS_CACHE of utils/botCheck.ts
  asnWatch,   \* the ASN watchlist
  handled,    \* the numbers of page requests and of honeytrap and verification requests so far
  redis,      \* the keys of the remote store behind UPSTASH_REDIS_REST_URL
  calls,      \* the calls of the Counter Store's operations so far, the latest last
  flight      \* the page request being processed call by call, and its position

\* the remote store, the record of the calls and the request in flight
storeVars == <<redis, calls, flight>>

vars == <<now, signKeyCfg, issued, last, cfg, mem, ipqsCache, asnWatch, handled, storeVars>>

-----------------------------------------------------------------------------
(* Bounds of the model *)

\* Date.now() runs from 0 to MaxTime
MaxTime == 3
\* at most this many tokens are signed in one behaviour
MaxIssued == 1
\* at most this many page requests reach the middleware in one behaviour
MaxPages == 1
\* at most this many requests reach the honeytrap and the verification route
\* in one behaviour
MaxApi == 1
\* at most this many calls of the Counter Store's operations are made from
\* outside the engine in one behaviour
MaxCalls == 3
\* at most this many arrivals are recorded in one history of the interval
\* analysis
MaxArrivals == 5

-----------------------------------------------------------------------------
(* Generic helpers *)

\* no configured secret: an empty or missing SIGN_KEY
NoKey == <<>>
\* a field or cookie that is not there
Absent == "undefined"

Min(a, b) == IF a < b THEN a ELSE b

Max(a, b) == IF a > b THEN a ELSE b

\* index of x in the sequence s (0 when absent)
IndexOf(x, s) ==
  IF \E i \in 1..Len(s) : s[i] = x
  THEN CHOOSE i \in 1..Len(s) : s[i] = x /\ \A j \in 1..(i-1) : s[j] # x
  ELSE 0

RECURSIVE Concat(_)
\* concatenation of a sequence of sequences
Concat(ss) == IF ss = <<>> THEN <<>> ELSE Head(ss) \o Concat(Tail(ss))

\* s with the element at position i replaced by c (String.prototype with one
\* code unit changed)
ReplaceAt(s, i, c) == [s EXCEPT ![i] = c]

-----------------------------------------------------------------------------
(* TextEncoder / TextDecoder: UTF-8 of code units below 0x800 *)

ReplacementChar == 65533

\* TE.encode of one code unit
Utf8Unit(cu) ==
  IF cu < 128 THEN <<cu>>
  ELSE IF cu < 2048 THEN <<192 + (cu \div 64), 128 + (cu % 64)>>
  ELSE <<239, 191, 189>>

RECURSIVE Utf8Encode(_)
\* new TE().encode(s)
Utf8Encode(s) ==
  IF s = <<>> THEN <<>> ELSE Utf8Unit(Head(s)) \o Utf8Encode(Tail(s))

RECURSIVE Utf8Decode(_)
\* new TD().decode(bytes): ill-formed input decodes to U+FFFD
Utf8Decode(b) ==
  IF b = <<>> THEN <<>>
  ELSE LET b1 == Head(b) IN
    IF b1 < 128 THEN <<b1>> \o Utf8Decode(Tail(b))
    ELSE IF b1 >= 194 /\ b1 < 224 /\ Len(b) >= 2 /\ b[2] >= 128 /\ b[2] < 192
      THEN <<(b1 - 192) * 64 + (b[2] - 128)>> \o Utf8Decode(SubSeq(b, 3, Len(b)))
    ELSE IF b1 = 239 /\ Len(b) >= 3 /\ b[2] = 191 /\ b[3] = 189
      THEN <<ReplacementChar>> \o Utf8Decode(SubSeq(b, 4, Len(b)))
    ELSE <<ReplacementChar>> \o Utf8Decode(Tail(b))

-----------------------------------------------------------------------------
(* base64url, on ASCII codes *)

DOT == 46
PLUS == 43
SLASH == 47
MINUS == 45
UNDERSCORE == 95
PAD == 61

\* the standard base64 alphabet: A-Z a-z 0-9 + /
B64Char(v) ==
  IF v < 26 THEN 65 + v
  ELSE IF v < 52 THEN 97 + (v - 26)
  ELSE IF v < 62 THEN 48 + (v - 52)
  ELSE IF v = 62 THEN PLUS ELSE SLASH

\* value of a character of the standard alphabet, -1 for any other character
B64Value(c) ==
  IF c >= 65 /\ c <= 90 THEN c - 65
  ELSE IF c >= 97 /\ c <= 122 THEN c - 97 + 26
  ELSE IF c >= 48 /\ c <= 57 THEN c - 48 + 52
  ELSE IF c = PLUS THEN 62
  ELSE IF c = SLASH THEN 63
  ELSE -1

RECURSIVE B64Encode(_)
\* Buffer.from(bytes).toString('base64'), padding included
B64Encode(b) ==
  IF b = <<>> THEN <<>>
  ELSE IF Len(b) = 1 THEN
    <<B64Char(b[1] \div 4), B64Char((b[1] % 4) * 16), PAD, PAD>>
  ELSE IF Len(b) = 2 THEN
    <<B64Char(b[1] \div 4), B64Char((b[1] % 4) * 16 + (b[2] \div 16)),
      B64Char((b[2] % 16) * 4), PAD>>
  ELSE
    <<B64Char(b[1] \div 4), B64Char((b[1] % 4) * 16 + (b[2] \div 16)),
      B64Char((b[2] % 16) * 4 + (b[3] \div 64)), B64Char(b[3] % 64)>>
    \o B64Encode(SubSeq(b, 4, Len(b)))

\* .replace(/\+/g, '-').replace(/\//g, '_')
ToUrlChar(c) == IF c = PLUS THEN MINUS ELSE IF c = SLASH THEN UNDERSCORE ELSE c

\* .replace(/-/g, '+').replace(/_/g, '/')
FromUrlChar(c) == IF c = MINUS THEN PLUS ELSE IF c = UNDERSCORE THEN SLASH ELSE c

RECURSIVE StripPad(_)
\* .replace(/=+$/g, '')
StripPad(s) ==
  IF s # <<>> /\ s[Len(s)] = PAD THEN StripPad(SubSeq(s, 1, Len(s) - 1)) ELSE s

\* b64url(bytes)
b64url(bytes) ==
  LET std == B64Encode(bytes) IN
  StripPad([i \in 1..Len(std) |-> ToUrlChar(std[i])])

RECURSIVE PadTo4(_)
\* while (s.length % 4) s += '='
PadTo4(s) == IF Len(s) % 4 = 0 THEN s ELSE PadTo4(Append(s, PAD))

RECURSIVE B64Values(_)
\* the 6-bit values of a base64 string up to its first '='
B64Values(s) ==
  IF s = <<>> \/ Head(s) = PAD THEN <<>>
  ELSE <<B64Value(Head(s))>> \o B64Values(Tail(s))

RECURSIVE B64Bytes(_)
\* the bytes of a sequence of 6-bit values; the bits left over after the last
\* whole byte are dropped, whatever they are
B64Bytes(v) ==
  IF Len(v) < 2 THEN <<>>
  ELSE IF Len(v) = 2 THEN <<v[1] * 4 + (v[2] \div 16)>>
  ELSE IF Len(v) = 3 THEN
    <<v[1] * 4 + (v[2] \div 16), (v[2] % 16) * 16 + (v[3] \div 4)>>
  ELSE
    <<v[1] * 4 + (v[2] \div 16), (v[2] % 16) * 16 + (v[3] \div 4),
      (v[3] % 4) * 64 + v[4]>>
    \o B64Bytes(SubSeq(v, 5, Len(v)))

DecodeError == <<-1>>

\* fromB64url without the translation of '-' and '_' to '+' and '/'
fromB64urlStandardOnly(s) ==
  LET vals == B64Values(PadTo4(s))
  IN IF \E i \in 1..Len(vals) : vals[i] = -1 THEN DecodeError ELSE B64Bytes(vals)

\* fromB64url(s): DecodeError stands for the exception the decoder raises on a
\* character outside the alphabet
fromB64url(s) ==
  LET std == PadTo4([i \in 1..Len(s) |-> FromUrlChar(s[i])])
      vals == B64Values(std)
  IN IF \E i \in 1..Len(vals) : vals[i] = -1 THEN DecodeError ELSE B64Bytes(vals)

-----------------------------------------------------------------------------
(* HMAC-SHA256 of the runtime, idealised: a deterministic keyed tag of fixed  *)
(* length that is injective on the messages of the model (no collisions)      *)

\* length of a tag in bytes; 32 in the runtime, and 8 leaves the same two
\* unused bits in the last base64 character (32 % 3 = 8 % 3 = 2)
HmacLen == 8

RECURSIVE SumBytes(_)
SumBytes(b) == IF b = <<>> THEN 0 ELSE (Head(b) + SumBytes(Tail(b))) % 256

RECURSIVE HmacChain(_, _, _, _)
\* the chained tag bytes of the padded message d from position i on
HmacChain(key, d, i, prev) ==
  IF i > Len(d) THEN <<>>
  ELSE LET c == (prev * 31 + d[i] + key[((i - 1) % Len(key)) + 1] + i) % 256
       IN <<c>> \o HmacChain(key, d, i + 1, c)

\* subtleHmac(keyRaw, data)
subtleHmac(keyRaw, data) ==
  LET padded == data \o <<128>> \o
                  [i \in 1..Max(0, HmacLen - Len(data) - 1) |-> 0]
      chain == HmacChain(keyRaw, padded, 1, SumBytes(keyRaw))
  IN SubSeq(chain, Len(chain) - HmacLen + 1, Len(chain))

-----------------------------------------------------------------------------
(* Signing key *)

\* the configured secret "K6"
ConfiguredKey == <<75, 54>>

\* 'ephemeral-' + Math.random().toString(36).slice(2), shortened to "e" and
\* one random character
EphemeralKeys == {<<101, 97>>, <<101, 98>>}

\* getSignKey(): the keys one call may return
getSignKey(key) == IF Len(key) > 0 THEN {key} ELSE EphemeralKeys

-----------------------------------------------------------------------------
(* Payload documents and their JSON text *)

\* minutes: 2 * 60 * 1000 ms
ChallengeTtl == 2
\* minutes: ttlSec = 30 * 60
SessionTtl == 30

\* type Variant
VariantList == <<"control", "A", "B">>

\* The exp field of a document: a number n >= 0, ExpAbsent when the field is
\* missing, or ExpString(v) when it holds the string VariantList[v].
ExpAbsent == -1

ExpString(v) == -1 - v

ExpIsNumber(e) == e >= 0

\* Addresses are the sequences of the parts between their dots: an octet is
\* its number, V6Part a part that is no number (an IPv6 address holds no dot
\* and is one such part), Zero24 the part "0/24" that ends a /24 prefix.
\* <<>> is a missing address.
NoIp == <<>>

V6Part == -1

Zero24 == 1000

IpHome == <<1, 2, 3, 4>>

IpNeighbour == <<1, 2, 3, 9>>

IpOther == <<5, 6, 7, 8>>

IpCloud == <<34, 1, 2, 3>>

IpPrivate == <<10, 0, 0, 7>>

IpV6 == <<V6Part>>

IpList == <<IpHome, IpNeighbour, IpOther, IpCloud, IpPrivate, IpV6>>

\* ip.split('.').slice(0, 3).join('.') + '.0/24', as its parts
Cidr24(ip) == SubSeq(ip, 1, Min(3, Len(ip))) \o <<Zero24>>

\* s.replace('/24', ''), on the parts of s
StripSlash24(s) == [i \in 1..Len(s) |-> IF s[i] = Zero24 THEN 0 ELSE s[i]]

\* the ip_cidr strings a document can hold; <<>> is a missing field and
\* 0.0.0.0/24 the prefix the engine writes for a request without address
CidrList ==
  <<NoIp, <<0, 0, 0, Zero24>>>> \o [i \in 1..Len(IpList) |-> Cidr24(IpList[i])]

ProviderList == <<Absent, "cloudflare", "vercel", "unknown">>

\* fingerprint strings: none, the empty string, the default of the engine, a
\* well-formed ASCII fingerprint and one holding a non-ASCII letter
FpNonAscii == "fp-e-acute-0123456789"

FpList == <<Absent, "", "nofp", "fp-ascii-0123456789", FpNonAscii>>

\* tlsSig: missing, JSON null, or cipher-version
TlsList == <<Absent, "null", "AES128-TLSv1.3", "AES128-nv", "nc-TLSv1.3">>

ExpVariantList == <<Absent>> \o VariantList

Doc(exp, cidr, provider, fp, tls, variant) ==
  [exp |-> exp, ip_cidr |-> cidr, provider |-> provider, fpHash |-> fp,
   tlsSig |-> tls, expVariant |-> variant]

\* JSON.stringify(doc): one code unit for each field, in the order of the
\* fields; a fingerprint holding a non-ASCII letter gives a non-ASCII unit
Stringify(doc) ==
  << (IF ExpIsNumber(doc.exp) THEN 32 + doc.exp ELSE 126 + doc.exp),
     48 + IndexOf(doc.ip_cidr, CidrList),
     48 + IndexOf(doc.provider, ProviderList),
     (IF doc.fpHash = FpNonAscii THEN 233 ELSE 48 + IndexOf(doc.fpHash, FpList)),
     48 + IndexOf(doc.tlsSig, TlsList),
     48 + IndexOf(doc.expVariant, ExpVariantList) >>

InList(u, list) == u >= 49 /\ u <= 48 + Len(list)

\* whether the text is the JSON text of a document
Parses(t) ==
  /\ Len(t) = 6
  /\ t[1] >= 32 /\ t[1] <= 125
  /\ InList(t[2], CidrList)
  /\ InList(t[3], ProviderList)
  /\ (t[4] = 233 \/ (InList(t[4], FpList) /\ FpList[t[4] - 48] # FpNonAscii))
  /\ InList(t[5], TlsList)
  /\ InList(t[6], ExpVariantList)

\* JSON.parse(text) of a text that parses
Parse(t) ==
  Doc(IF t[1] < 125 - Len(VariantList) THEN t[1] - 32 ELSE t[1] - 126,
      CidrList[t[2] - 48], ProviderList[t[3] - 48],
      IF t[4] = 233 THEN FpNonAscii ELSE FpList[t[4] - 48],
      TlsList[t[5] - 48], ExpVariantList[t[6] - 48])

-----------------------------------------------------------------------------
(* Token Service *)

\* signPayload(payload) when getSignKey() returns keyStr
signPayload(payload, keyStr) ==
  LET data == Utf8Encode(payload)
      sig == subtleHmac(Utf8Encode(keyStr), data)
  IN b64url(data) \o <<DOT>> \o b64url(sig)

RECURSIVE Split(_, _)
\* s.split(sep)
Split(s, sep) ==
  LET i == IndexOf(sep, s) IN
  IF i = 0 THEN <<s>>
  ELSE <<SubSeq(s, 1, i - 1)>> \o Split(SubSeq(s, i + 1, Len(s)), sep)

\* what verifySignedPayload returns: null, or the payload text
NullText == [ok |-> FALSE, text |-> <<>>]

Text(t) == [ok |-> TRUE, text |-> t]

\* lines 169-181 of verifySignedPayload: the decoded payload text when the
\* token has two non-empty segments and the signature matches, else null
VerifiedText(token, keyStr) ==
  LET parts == Split(token, DOT)
      p == parts[1]
      s == IF Len(parts) >= 2 THEN parts[2] ELSE <<>>
  IN IF p = <<>> \/ s = <<>> THEN NullText
     ELSE LET payloadBytes == fromB64url(p)
              sigBytes == fromB64url(s)
          IN IF payloadBytes = DecodeError \/ sigBytes = DecodeError THEN NullText
             ELSE LET calc == subtleHmac(Utf8Encode(keyStr), payloadBytes) IN
               IF Len(calc) # Len(sigBytes) THEN NullText
               ELSE IF \E i \in 1..Len(calc) : calc[i] # sigBytes[i] THEN NullText
               ELSE Text(Utf8Decode(payloadBytes))


\* verifySignedPayload without the expiry check of lines 183-186
verifySignedPayloadNoExpiry(token, keyStr, t) == VerifiedText(token, keyStr)

\* verifySignedPayload(token) at time t when getSignKey() returns keyStr
verifySignedPayload(token, keyStr, t) ==
  LET v == VerifiedText(token, keyStr) IN
  IF ~v.ok THEN NullText
  ELSE IF Parses(v.text) /\ ExpIsNumber(Parse(v.text).exp) /\ t > Parse(v.text).exp
    THEN NullText
  ELSE v

-----------------------------------------------------------------------------
(* Header values and paths are strings of code units; a regular expression   *)
(* of the source is the list of the literal texts it matches, searched in    *)
(* the lower-cased value when the expression carries the i flag              *)

\* a header or a path that is not there: headers.get() returns null
NoText == <<>>

\* s.toLowerCase(), on ASCII letters
Lower(s) == [i \in 1..Len(s) |-> IF s[i] >= 65 /\ s[i] <= 90 THEN s[i] + 32 ELSE s[i]]

\* s.startsWith(p)
StartsWith(s, p) == Len(s) >= Len(p) /\ \A j \in 1..Len(p) : s[j] = p[j]

\* s.endsWith(p)
EndsWith(s, p) == Len(s) >= Len(p) /\ \A j \in 1..Len(p) : s[Len(s) - Len(p) + j] = p[j]

\* s.includes(p)
Includes(s, p) ==
  \E i \in 1..(Len(s) - Len(p) + 1) : \A j \in 1..Len(p) : s[i + j - 1] = p[j]

\* whether one of the texts of list occurs in s
TestAny(list, s) == \E k \in 1..Len(list) : Includes(s, list[k])

\* the texts matched by BOT_UA_PATTERNS, in lower case: adsbot-google, googlebot, mediapartners-google, google-ads, google ads, googleadwords,
\* doubleclick, bingbot, ahrefsbot, semrushbot, yandex, baiduspider, facebookexternalhit, twitterbot,
\* linkedinbot, applebot, lighthouse, pagespeed, page speed, gtmetrix, pingdom, webpagetest, headlesschrome, puppeteer,
\* playwright, selenium, phantomjs, electron, wkhtmlto, nodejs, node.js,
\* curl/, wget/, httpie/, python-requests, axios/
BOT_UA_PATTERNS ==
  << <<97, 100, 115, 98, 111, 116, 45, 103, 111, 111, 103, 108, 101>>,
     <<103, 111, 111, 103, 108, 101, 98, 111, 116>>,
     <<109, 101, 100, 105, 97, 112, 97, 114, 116, 110, 101, 114, 115, 45, 103, 111, 111, 103, 108, 101>>,
     <<103, 111, 111, 103, 108, 101, 45, 97, 100, 115>>,
     <<103, 111, 111, 103, 108, 101, 32, 97, 100, 115>>,
     <<103, 111, 111, 103, 108, 101, 97, 100, 119, 111, 114, 100, 115>>,
     <<100, 111, 117, 98, 108, 101, 99, 108, 105, 99, 107>>,
     <<98, 105, 110, 103, 98, 111, 116>>,
     <<97, 104, 114, 101, 102, 115, 98, 111, 116>>,
     <<115, 101, 109, 114, 117, 115, 104, 98, 111, 116>>,
     <<121, 97, 110, 100, 101, 120>>,
     <<98, 97, 105, 100, 117, 115, 112, 105, 100, 101, 114>>,
     <<102, 97, 99, 101, 98, 111, 111, 107, 101, 120, 116, 101, 114, 110, 97, 108, 104, 105, 116>>,
     <<116, 119, 105, 116, 116, 101, 114, 98, 111, 116>>,
     <<108, 105, 110, 107, 101, 100, 105, 110, 98, 111, 116>>,
     <<97, 112, 112, 108, 101, 98, 111, 116>>,
     <<108, 105, 103, 104, 116, 104, 111, 117, 115, 101>>,
     <<112, 97, 103, 101, 115, 112, 101, 101, 100>>,
     <<112, 97, 103, 101, 32, 115, 112, 101, 101, 100>>,
     <<103, 116, 109, 101, 116, 114, 105, 120>>,
     <<112, 105, 110, 103, 100, 111, 109>>,
     <<119, 101, 98, 112, 97, 103, 101, 116, 101, 115, 116>>,
     <<104, 101, 97, 100, 108, 101, 115, 115, 99, 104, 114, 111, 109, 101>>,
     <<112, 117, 112, 112, 101, 116, 101, 101, 114>>,
     <<112, 108, 97, 121, 119, 114, 105, 103, 104, 116>>,
     <<115, 101, 108, 101, 110, 105, 117, 109>>,
     <<112, 104, 97, 110, 116, 111, 109, 106, 115>>,
     <<101, 108, 101, 99, 116, 114, 111, 110>>,
     <<119, 107, 104, 116, 109, 108, 116, 111>>,
     <<110, 111, 100, 101, 106, 115>>,
     <<110, 111, 100, 101, 46, 106, 115>>,
     <<99, 117, 114, 108, 47>>,
     <<119, 103, 101, 116, 47>>,
     <<104, 116, 116, 112, 105, 101, 47>>,
     <<112, 121, 116, 104, 111, 110, 45, 114, 101, 113, 117, 101, 115, 116, 115>>,
     <<97, 120, 105, 111, 115, 47>> >>

\* /HeadlessChrome|Puppeteer|Playwright|Selenium|PhantomJS|Electron|wkhtmlto|Node\.js/i
AutomationPatterns ==
  << <<104, 101, 97, 100, 108, 101, 115, 115, 99, 104, 114, 111, 109, 101>>,
     <<112, 117, 112, 112, 101, 116, 101, 101, 114>>,
     <<112, 108, 97, 121, 119, 114, 105, 103, 104, 116>>,
     <<115, 101, 108, 101, 110, 105, 117, 109>>,
     <<112, 104, 97, 110, 116, 111, 109, 106, 115>>,
     <<101, 108, 101, 99, 116, 114, 111, 110>>,
     <<119, 107, 104, 116, 109, 108, 116, 111>>,
     <<110, 111, 100, 101, 46, 106, 115>> >>

\* /pagespeed\.web\.dev|developers\.google\.com\/speed|gtmetrix\.com|tools\.pingdom\.com|webpagetest\.org/i
AnalyzerRefPatterns ==
  << <<112, 97, 103, 101, 115, 112, 101, 101, 100, 46, 119, 101, 98, 46, 100, 101, 118>>,
     <<100, 101, 118, 101, 108, 111, 112, 101, 114, 115, 46, 103, 111, 111, 103, 108, 101, 46, 99, 111, 109, 47, 115, 112, 101, 101, 100>>,
     <<103, 116, 109, 101, 116, 114, 105, 120, 46, 99, 111, 109>>,
     <<116, 111, 111, 108, 115, 46, 112, 105, 110, 103, 100, 111, 109, 46, 99, 111, 109>>,
     <<119, 101, 98, 112, 97, 103, 101, 116, 101, 115, 116, 46, 111, 114, 103>> >>

\* /preview|prefetch|prerender/i
PurposePatterns ==
  << <<112, 114, 101, 118, 105, 101, 119>>,
     <<112, 114, 101, 102, 101, 116, 99, 104>>,
     <<112, 114, 101, 114, 101, 110, 100, 101, 114>> >>

\* /[?&](gclid|utm_source=google|utm_medium=cpc|utm_campaign)=/i
AdParamPatterns ==
  << <<63, 103, 99, 108, 105, 100, 61>>,
     <<38, 103, 99, 108, 105, 100, 61>>,
     <<63, 117, 116, 109, 95, 115, 111, 117, 114, 99, 101, 61, 103, 111, 111, 103, 108, 101, 61>>,
     <<38, 117, 116, 109, 95, 115, 111, 117, 114, 99, 101, 61, 103, 111, 111, 103, 108, 101, 61>>,
     <<63, 117, 116, 109, 95, 109, 101, 100, 105, 117, 109, 61, 99, 112, 99, 61>>,
     <<38, 117, 116, 109, 95, 109, 101, 100, 105, 117, 109, 61, 99, 112, 99, 61>>,
     <<63, 117, 116, 109, 95, 99, 97, 109, 112, 97, 105, 103, 110, 61>>,
     <<38, 117, 116, 109, 95, 99, 97, 109, 112, 97, 105, 103, 110, 61>> >>

\* /\.(?:png|jpg|jpeg|gif|svg|ico|css|js|map|txt|webp|woff2?|ttf|eot)$/i
AssetSuffixes ==
  << <<46, 112, 110, 103>>,
     <<46, 106, 112, 103>>,
     <<46, 106, 112, 101, 103>>,
     <<46, 103, 105, 102>>,
     <<46, 115, 118, 103>>,
     <<46, 105, 99, 111>>,
     <<46, 99, 115, 115>>,
     <<46, 106, 115>>,
     <<46, 109, 97, 112>>,
     <<46, 116, 120, 116>>,
     <<46, 119, 101, 98, 112>>,
     <<46, 119, 111, 102, 102>>,
     <<46, 119, 111, 102, 102, 50>>,
     <<46, 116, 116, 102>>,
     <<46, 101, 111, 116>> >>

\* /text\/html/i
TextHtml == <<116, 101, 120, 116, 47, 104, 116, 109, 108>>

\* "Mozilla/5.0 Chrome/120"
UaChrome == <<77, 111, 122, 105, 108, 108, 97, 47, 53, 46, 48, 32, 67, 104, 114, 111, 109, 101, 47, 49, 50, 48>>

\* "curl/7.64.1"
UaCurl == <<99, 117, 114, 108, 47, 55, 46, 54, 52, 46, 49>>

\* "Mozilla/5.0 HeadlessChrome/120.0"
UaHeadless == <<77, 111, 122, 105, 108, 108, 97, 47, 53, 46, 48, 32, 72, 101, 97, 100, 108, 101, 115, 115, 67, 104, 114, 111, 109, 101, 47, 49, 50, 48, 46, 48>>

\* "Node.js/18"
UaNodeJs == <<78, 111, 100, 101, 46, 106, 115, 47, 49, 56>>

\* "https://www.google.com/search?q=shoes"
RefGoogle == <<104, 116, 116, 112, 115, 58, 47, 47, 119, 119, 119, 46, 103, 111, 111, 103, 108, 101, 46, 99, 111, 109, 47, 115, 101, 97, 114, 99, 104, 63, 113, 61, 115, 104, 111, 101, 115>>

\* "https://www.google.co.uk/aclk?sa=l&gclid=x1"
RefGoogleAd == <<104, 116, 116, 112, 115, 58, 47, 47, 119, 119, 119, 46, 103, 111, 111, 103, 108, 101, 46, 99, 111, 46, 117, 107, 47, 97, 99, 108, 107, 63, 115, 97, 61, 108, 38, 103, 99, 108, 105, 100, 61, 120, 49>>

\* "https://lh3.googleusercontent.com/a?gclid=x1"
RefUserContent == <<104, 116, 116, 112, 115, 58, 47, 47, 108, 104, 51, 46, 103, 111, 111, 103, 108, 101, 117, 115, 101, 114, 99, 111, 110, 116, 101, 110, 116, 46, 99, 111, 109, 47, 97, 63, 103, 99, 108, 105, 100, 61, 120, 49>>

\* "https://pagespeed.web.dev/"
RefPageSpeed == <<104, 116, 116, 112, 115, 58, 47, 47, 112, 97, 103, 101, 115, 112, 101, 101, 100, 46, 119, 101, 98, 46, 100, 101, 118, 47>>

\* "https://example.com/?gclid=x1"
RefOther == <<104, 116, 116, 112, 115, 58, 47, 47, 101, 120, 97, 109, 112, 108, 101, 46, 99, 111, 109, 47, 63, 103, 99, 108, 105, 100, 61, 120, 49>>

\* "text/html,application/xhtml+xml"
AcceptHtml == <<116, 101, 120, 116, 47, 104, 116, 109, 108, 44, 97, 112, 112, 108, 105, 99, 97, 116, 105, 111, 110, 47, 120, 104, 116, 109, 108, 43, 120, 109, 108>>

\* "*/*"
AcceptAny == <<42, 47, 42>>

\* "en-US"
LangEn == <<101, 110, 45, 85, 83>>

\* "prefetch"
PurposePrefetch == <<112, 114, 101, 102, 101, 116, 99, 104>>

\* "1"
One == <<49>>

\* "?1"
SfuUser == <<63, 49>>

\* "document"
SfdDocument == <<100, 111, 99, 117, 109, 101, 110, 116>>

\* "navigate"
SfmNavigate == <<110, 97, 118, 105, 103, 97, 116, 101>>

\* "/"
PathRoot == <<47>>

\* "/landing"
PathLanding == <<47, 108, 97, 110, 100, 105, 110, 103>>

\* "/welcome"
PathWelcome == <<47, 119, 101, 108, 99, 111, 109, 101>>

\* "/_next/static/chunk.js"
PathNext == <<47, 95, 110, 101, 120, 116, 47, 115, 116, 97, 116, 105, 99, 47, 99, 104, 117, 110, 107, 46, 106, 115>>

\* "/api/verify-challenge"
PathApi == <<47, 97, 112, 105, 47, 118, 101, 114, 105, 102, 121, 45, 99, 104, 97, 108, 108, 101, 110, 103, 101>>

\* "/hc"
PathHc == <<47, 104, 99>>

\* "/safe.html"
PathSafe == <<47, 115, 97, 102, 101, 46, 104, 116, 109, 108>>

\* "/offer.html"
PathOffer == <<47, 111, 102, 102, 101, 114, 46, 104, 116, 109, 108>>

\* "/img/logo.PNG"
PathAsset == <<47, 105, 109, 103, 47, 108, 111, 103, 111, 46, 80, 78, 71>>

\* "/_next"
PrefixNext == <<47, 95, 110, 101, 120, 116>>

\* "/api/"
PrefixApi == <<47, 97, 112, 105, 47>>

\* "noip"
NoIpText == <<110, 111, 105, 112>>

\* "salt"
DefaultSalt == <<115, 97, 108, 116>>

\* "s2"
SaltTwo == <<115, 50>>

-----------------------------------------------------------------------------
(* The request as the Decision Engine sees it (NextRequest): its path, its   *)
(* headers, its cookies and the metadata the platform attaches (req.ip,      *)
(* req.cf, req.geo)                                                          *)

\* getASN() returns null, and (req.cf).asn or (req.geo).asn is not there
NoAsn == -1

\* req.cf of a request that did not come through Cloudflare
NoCf == [present |-> FALSE, asn |-> NoAsn, tlsCipher |-> Absent, tlsVersion |-> Absent]

\* req.geo of a request that did not come through Vercel
NoGeo == [present |-> FALSE, asn |-> NoAsn]

\* a request on the path with no header, no cookie and no platform metadata
BareRequest(path) ==
  [ path |-> path,
    ua |-> NoText, referer |-> NoText, accept |-> NoText, lang |-> NoText,
    sfu |-> NoText, sfd |-> NoText, sfm |-> NoText,
    purpose |-> NoText, xlh |-> NoText,
    cfip |-> NoIp, tcip |-> NoIp, xri |-> NoIp, xff |-> <<>>,
    vercelId |-> FALSE, vercelAsn |-> NoAsn,
    ip |-> NoIp, cf |-> NoCf, geo |-> NoGeo,
    human_signed |-> NoText, ban |-> NoText, fp |-> Absent,
    act |-> NoText, hc |-> NoText ]

\* isStaticAssetPath(pathname)
isStaticAssetPath(pathname) ==
  \E k \in 1..Len(AssetSuffixes) : EndsWith(Lower(pathname), AssetSuffixes[k])

\* isBlockedUserAgent(ua).blocked
isBlockedUserAgent(ua) == ua # NoText /\ TestAny(BOT_UA_PATTERNS, Lower(ua))

\* ASN_BLACKLIST
ASN_BLACKLIST ==
  { 16509, 14618, 396982, 15169, 8075, 31898, 45102, 132203, 16276, 24940,
    14061, 20473, 16265, 12876, 63949, 20940, 16625, 13335, 54113, 32934 }

\* isBlacklistedASN(asn)
isBlacklistedASN(asn) == asn # NoAsn /\ asn \in ASN_BLACKLIST

\* getIP(req): the first of cf-connecting-ip, true-client-ip, req.ip,
\* x-real-ip and the first entry of x-forwarded-for that is there
getIP(req) ==
  IF req.cfip # NoIp THEN req.cfip
  ELSE IF req.tcip # NoIp THEN req.tcip
  ELSE IF req.ip # NoIp THEN req.ip
  ELSE IF req.xri # NoIp THEN req.xri
  ELSE IF req.xff = <<>> THEN NoIp
  ELSE req.xff[1]

\* getASN(req)
getASN(req) ==
  IF req.cf.present /\ req.cf.asn # NoAsn THEN req.cf.asn
  ELSE IF req.geo.present /\ req.geo.asn # NoAsn THEN req.geo.asn
  ELSE req.vercelAsn

\* CIDR_BLACKLIST: the four octets of the base and the number of bits
CIDR_BLACKLIST ==
  << <<34, 0, 0, 0, 8>>, <<35, 0, 0, 0, 8>>, <<52, 0, 0, 0, 8>>, <<54, 0, 0, 0, 8>>,
     <<13, 64, 0, 0, 11>>, <<20, 0, 0, 0, 8>>, <<104, 16, 0, 0, 13>>,
     <<172, 64, 0, 0, 13>>, <<141, 101, 64, 0, 18>>, <<108, 162, 192, 0, 18>>,
     <<190, 93, 240, 0, 20>>, <<188, 114, 96, 0, 20>>, <<197, 234, 240, 0, 22>>,
     <<198, 41, 128, 0, 17>>, <<162, 158, 0, 0, 15>>, <<173, 245, 48, 0, 20>>,
     <<103, 21, 244, 0, 22>>, <<103, 22, 200, 0, 22>>, <<103, 31, 4, 0, 22>>,
     <<151, 101, 0, 0, 16>>, <<199, 232, 0, 0, 16>> >>

\* ipToLong(ip) # null: four parts, each an integer from 0 to 255
IsIpv4(ip) == Len(ip) = 4 /\ \A i \in 1..4 : ip[i] >= 0 /\ ip[i] <= 255

\* octet i of the mask of a prefix of the given number of bits, applied to b:
\* the 32-bit (ipn & mask) is compared octet by octet
MaskOctet(b, i, bits) ==
  LET k == Min(8, Max(0, bits - 8 * (i - 1))) IN (b \div (2 ^ (8 - k))) * (2 ^ (8 - k))

\* (ipn & mask) === base for the prefix c of CIDR_BLACKLIST
InCidr(ip, c) == \A i \in 1..4 : MaskOctet(ip[i], i, c[5]) = MaskOctet(c[i], i, c[5])

\* isBlacklistedIP(ip)
isBlacklistedIP(ip) ==
  ip # NoIp /\ IsIpv4(ip) /\ \E k \in 1..Len(CIDR_BLACKLIST) : InCidr(ip, CIDR_BLACKLIST[k])

\* isAnalyzerRequest(req)
isAnalyzerRequest(req) ==
  \/ isBlockedUserAgent(req.ua)
  \/ TestAny(AnalyzerRefPatterns, Lower(req.referer))
  \/ req.xlh = One

\* the reasons of isLikelyBrowserAutomation(req), as the tags pushed in order
AutomationReasons(req) ==
  (IF TestAny(AutomationPatterns, Lower(req.ua)) THEN <<"ua:automation">> ELSE <<>>)
  \o (IF TestAny(PurposePatterns, Lower(req.purpose)) THEN <<"hdr:purpose">> ELSE <<>>)
  \o (IF Len(req.lang) < 2 THEN <<"hdr:lang">> ELSE <<>>)
  \o (IF ~Includes(Lower(req.accept), TextHtml) THEN <<"hdr:accept">> ELSE <<>>)

\* isLikelyBrowserAutomation(req).flag: a hard signal is among the reasons
isLikelyBrowserAutomation(req) ==
  \E i \in 1..Len(AutomationReasons(req)) :
    AutomationReasons(req)[i] \in {"ua:automation", "hdr:purpose", "hdr:accept"}

\* new URL(ref).hostname: the text between "://" and the next '/', '?' or '#';
\* NoText when ref is no absolute URL (new URL throws)
Hostname(ref) ==
  LET sep == <<58, 47, 47>>
      starts == { i \in 1..(Len(ref) - 2) : SubSeq(ref, i, i + 2) = sep }
  IN IF starts = {} THEN NoText
     ELSE LET s == (CHOOSE i \in starts : \A j \in starts : i <= j) + 3
              ends == { i \in s..Len(ref) : ref[i] \in {47, 63, 35} }
              e == IF ends = {} THEN Len(ref) + 1
                   ELSE CHOOSE i \in ends : \A j \in ends : i <= j
          IN Lower(SubSeq(ref, s, e - 1))

\* new URL(ref).search: the text from the first '?' on
Search(ref) ==
  LET i == IndexOf(63, ref) IN IF i = 0 THEN NoText ELSE SubSeq(ref, i, Len(ref))

\* /(^|\.)google\.[a-z.]+$/.test(host) && !/googleusercontent\.com$/.test(host)
IsGoogleHost(host) ==
  LET google == <<103, 111, 111, 103, 108, 101, 46>>
      usercontent == <<103, 111, 111, 103, 108, 101, 117, 115, 101, 114, 99, 111,
                       110, 116, 101, 110, 116, 46, 99, 111, 109>>
  IN /\ \E i \in 1..(Len(host) - 7) :
          /\ (i = 1 \/ host[i - 1] = 46)
          /\ SubSeq(host, i, i + 6) = google
          /\ \A j \in (i + 7)..Len(host) : (host[j] >= 97 /\ host[j] <= 122) \/ host[j] = 46
     /\ ~EndsWith(host, usercontent)

\* isTrustedGoogleRef(req)
isTrustedGoogleRef(req) ==
  /\ req.referer # NoText
  /\ IsGoogleHost(Hostname(req.referer))
  /\ LET hasAdOrSearchParams == TestAny(AdParamPatterns, Lower(Search(req.referer)))
         navigational == \/ Includes(req.sfu, SfuUser)
                         \/ (req.sfd = SfdDocument /\ Includes(Lower(req.sfm), SfmNavigate))
         htmlAccept == Includes(Lower(req.accept), TextHtml)
     IN (navigational \/ hasAdOrSearchParams) /\ htmlAccept

\* /^(10\.|127\.|192\.168\.|172\.(1[6-9]|2\d|3[0-1])\.)/.test(ip)
IsPrivateIp(ip) ==
  /\ Len(ip) >= 2
  /\ \/ ip[1] = 10
     \/ ip[1] = 127
     \/ (Len(ip) >= 3 /\ ip[1] = 192 /\ ip[2] = 168)
     \/ (Len(ip) >= 3 /\ ip[1] = 172 /\ ip[2] >= 16 /\ ip[2] <= 31)

\* reversePTRMatches(ip, patterns) when the resolver's answer is ptr: TRUE
\* when an answer it gave in time matches a crawler domain
reversePTRMatches(ip, ptr) == ip # NoIp /\ ~IsPrivateIp(ip) /\ ptr

\* hasHumanActivity(req)
hasHumanActivity(req) == req.act = One /\ req.hc = One

\* the fp cookie values for which fingerprintValid(req) is true: from 10 to
\* 130 characters, none of the words headless, puppeteer, playwright
ValidFingerprints == {"fp-ascii-0123456789", FpNonAscii}

\* fingerprintValid(req)
fingerprintValid(req) == req.fp \in ValidFingerprints

\* isBanned(req)
isBanned(req) == req.ban = One

\* getProviderContext(req): the provider and the source of the address
getProviderContext(req) ==
  IF req.cf.present
    THEN [provider |-> "cloudflare", ipSource |-> IF req.cfip # NoIp THEN "cf" ELSE "none"]
  ELSE IF req.geo.present \/ req.ip # NoIp
    THEN [provider |-> "vercel",
          ipSource |-> IF req.ip # NoIp \/ req.xri # NoIp THEN "vercel" ELSE "none"]
  ELSE [provider |-> "unknown", ipSource |-> IF req.xff # <<>> THEN "header" ELSE "none"]

\* isIpFromUntrustedSource(req)
isIpFromUntrustedSource(req) == getProviderContext(req).ipSource \in {"header", "none"}

-----------------------------------------------------------------------------
(* Configuration (Edge Config / process.env), read at every request          *)

\* getCfgNumber() returns null: the key is missing or is no finite number
NoNumber == -1

\* the default weights with tls_present as heavy as the other negative
\* weights, in 1/10000
WeightsTlsHeavy ==
  [ ua_block |-> 3500, asn_black |-> 2500, ip_black |-> 2000, ip_untrusted |-> 1500,
    ipqs_fraud |-> 2800, ipqs_proxy |-> 1800, ipqs_vpn |-> 1800, ipqs_tor |-> 3000,
    ptr_bot |-> 3000, rate_high |-> 1800, behavior_uniform |-> 1200,
    behavior_fast |-> 1000, tls_present |-> -1000, js_nonce_valid |-> -1000,
    fp_ok |-> -1000, activity_ok |-> -1000, hp_hit |-> 5000 ]

\* DEFAULT_WEIGHTS, in 1/10000
DEFAULT_WEIGHTS ==
  [ ua_block |-> 3500, asn_black |-> 2500, ip_black |-> 2000, ip_untrusted |-> 1500,
    ipqs_fraud |-> 2800, ipqs_proxy |-> 1800, ipqs_vpn |-> 1800, ipqs_tor |-> 3000,
    ptr_bot |-> 3000, rate_high |-> 1800, behavior_uniform |-> 1200,
    behavior_fast |-> 1000, tls_present |-> -400, js_nonce_valid |-> -1000,
    fp_ok |-> -1000, activity_ok |-> -1000, hp_hit |-> 5000 ]

\* { ...DEFAULT_WEIGHTS, ...(weightJson || {}) }: weightJson is a function
\* from some of the weight names to numbers
MergeWeights(weightJson) ==
  [ k \in DOMAIN DEFAULT_WEIGHTS |->
      IF k \in DOMAIN weightJson THEN weightJson[k] ELSE DEFAULT_WEIGHTS[k] ]

\* the rate limits isBot uses when RATE_LIMIT_CONFIG is missing
DefaultRateConfig == [windowSec |-> 10, perIp |-> 20, perFp |-> 15, perAsn |-> 50]

\* the thresholds isBot and getExperimentConfig fall back to, in 1/10000
DefaultThreshold == 4500

DefaultStrict == 6500

\* the margin below the base threshold inside which an untrusted address
\* source is challenged: 0.05
UntrustedMargin == 500

\* a configuration with the offer URL set and every other key missing
DefaultConfig ==
  [ offerUrl |-> TRUE,
    BOT_THRESHOLD |-> NoNumber, BOT_THRESHOLD_STRICT |-> NoNumber,
    BOT_THRESHOLD_V |-> [control |-> NoNumber, A |-> NoNumber, B |-> NoNumber],
    BOT_THRESHOLD_STRICT_V |-> [control |-> NoNumber, A |-> NoNumber, B |-> NoNumber],
    WEIGHT_TABLE |-> <<>>,
    WEIGHT_TABLE_V |-> [control |-> <<>>, A |-> <<>>, B |-> <<>>],
    RATE_LIMIT_CONFIG |-> DefaultRateConfig,
    IPQS_API_KEY |-> FALSE, UPSTASH |-> FALSE,
    EXPERIMENT_MODE |-> "off", EXPERIMENT_SALT |-> NoText,
    EXPERIMENT_SPLIT_A |-> NoNumber, EXPERIMENT_SPLIT_B |-> NoNumber ]

-----------------------------------------------------------------------------
(* utils/experiments.ts *)

RECURSIVE Xor(_, _)
\* a ^ b on non-negative integers
Xor(a, b) ==
  IF a = 0 THEN b ELSE IF b = 0 THEN a
  ELSE (((a % 2) + (b % 2)) % 2) + 2 * Xor(a \div 2, b \div 2)

\* one round of the loop of hashStr on the character code ch, the 32-bit h
\* held as its two 16-bit halves: h ^= ch; h = Math.imul(h, 16777619) >>> 0,
\* where 16777619 = 256 * 65536 + 403
HashRound(h, ch) ==
  LET lo == Xor(h.lo, ch)
      low == lo * 403
  IN [hi |-> (h.hi * 403 + lo * 256 + (low \div 65536)) % 65536, lo |-> low % 65536]

\* the loop of hashStr over s: loop[i, h] is the result when h is the value
\* before the round on s[i]; h starts as 2166136261 = 33052 * 65536 + 40389
HashLoop(s) ==
  LET loop[i \in 1..(Len(s) + 1), h \in [hi : 0..65535, lo : 0..65535]] ==
        IF i > Len(s) THEN h ELSE loop[i + 1, HashRound(h, s[i])]
  IN loop[1, [hi |-> 33052, lo |-> 40389]]

\* hashStr(s) % 100, with 65536 % 100 = 36
hashStrMod100(s) ==
  LET h == HashLoop(s)
  IN ((h.hi % 100) * 36 + h.lo) % 100

RECURSIVE Digits(_)
\* String(n) of a non-negative integer
Digits(n) == IF n < 10 THEN <<48 + n>> ELSE Digits(n \div 10) \o <<48 + (n % 10)>>

RECURSIVE JoinParts(_)
\* the text of an address: its parts joined with '.'; a part that is no
\* number is written "::1"
JoinParts(ip) ==
  LET part(x) == IF x = V6Part THEN <<58, 58, 49>> ELSE Digits(x) IN
  IF ip = <<>> THEN <<>>
  ELSE IF Len(ip) = 1 THEN part(ip[1])
  ELSE part(ip[1]) \o <<DOT>> \o JoinParts(Tail(ip))

\* the seed of the experiment: `${getIP(req) || 'noip'}:${user-agent || ''}`
ExperimentSeed(req) ==
  (IF getIP(req) = NoIp THEN NoIpText ELSE JoinParts(getIP(req))) \o <<58>> \o req.ua

\* the first configured of a and b, else the default d:  a ?? b ?? d
Coalesce(a, b, d) == IF a # NoNumber THEN a ELSE IF b # NoNumber THEN b ELSE d

\* getExperimentConfig(seed) under the configuration c
getExperimentConfig(seed, c) ==
  LET salt == IF c.EXPERIMENT_SALT = NoText THEN DefaultSalt ELSE c.EXPERIMENT_SALT
      aP == IF c.EXPERIMENT_SPLIT_A = NoNumber THEN 50 ELSE c.EXPERIMENT_SPLIT_A
      bP == IF c.EXPERIMENT_SPLIT_B = NoNumber THEN 0 ELSE c.EXPERIMENT_SPLIT_B
      r == hashStrMod100(seed \o <<58>> \o salt)
      variant == IF c.EXPERIMENT_MODE # "ab" THEN "control"
                 ELSE IF r < aP THEN "A"
                 ELSE IF r < aP + bP THEN "B"
                 ELSE "control"
  IN [ variant |-> variant,
       botThreshold |->
         Coalesce(c.BOT_THRESHOLD_V[variant], c.BOT_THRESHOLD, DefaultThreshold),
       botThresholdStrict |->
         Coalesce(c.BOT_THRESHOLD_STRICT_V[variant], c.BOT_THRESHOLD_STRICT, DefaultStrict),
       \* WEIGHT_TABLE_{VAR} || WEIGHT_TABLE || null, a missing table being <<>>
       weightOverride |->
         IF c.WEIGHT_TABLE_V[variant] # <<>> THEN c.WEIGHT_TABLE_V[variant]
         ELSE c.WEIGHT_TABLE ]

-----------------------------------------------------------------------------
(* utils/rateLimiter.ts with no remote store configured: the in-memory MEM.  *)
(* MEM is a function from keys to entries; the store's clock is Date.now()   *)
(* in seconds                                                                *)

\* seconds in one unit of now
SecPerTick == 60

\* the key `${kind}...` built from an address, a fingerprint, an ASN or a token
Key(kind, ip, fp, asn, tok) == [kind |-> kind, ip |-> ip, fp |-> fp, asn |-> asn, tok |-> tok]

\* an entry { v, exp, times }: v is a number (num), a prefix (cidr) or a text
Entry(typ, num, cidr, text, exp, times) ==
  [typ |-> typ, num |-> num, cidr |-> cidr, text |-> text, exp |-> exp, times |-> times]

\* MEM.delete(key)
MemDelete(m, key) == [k \in DOMAIN m \ {key} |-> m[k]]

\* MEM.set(key, e)
MemPut(m, key, e) == [k \in DOMAIN m \cup {key} |-> IF k = key THEN e ELSE m[k]]

\* whether memGet(key) returns an entry at time t (seconds)
MemHas(m, key, t) == key \in DOMAIN m /\ ~(m[key].exp # 0 /\ t > m[key].exp)

\* MEM after memGet(key) at time t: an expired entry is deleted
memGet(m, key, t) == IF key \in DOMAIN m /\ ~MemHas(m, key, t) THEN MemDelete(m, key) ELSE m

\* MEM after memSet(key, v, ttlSec) at time t
memSet(m, key, typ, num, cidr, text, ttlSec, t) ==
  MemPut(m, key, Entry(typ, num, cidr, text, t + ttlSec, <<>>))

\* getAndSetBinding(key, value, ttlSec) at time t: MEM and the result
getAndSetBinding(m, key, value, ttlSec, t) ==
  LET has == MemHas(m, key, t)
      prev == IF has /\ m[key].typ = "cidr" THEN m[key].cidr ELSE NoIp
  IN [ mem |-> memSet(memGet(m, key, t), key, "cidr", 0, value, Absent, ttlSec, t),
       changed |-> prev # value, prev |-> prev ]

\* kvSetEx(key, value, ttlSec) at time t: MEM afterwards
kvSetEx(m, key, value, ttlSec, t) == memSet(m, key, "text", 0, NoIp, value, ttlSec, t)

\* kvIncr(key, ttlSec) at time t: MEM and the count returned
kvIncr(m, key, ttlSec, t) ==
  LET has == MemHas(m, key, t)
      n == IF has /\ m[key].typ = "number" THEN m[key].num + 1 ELSE 1
      times == IF has THEN m[key].times ELSE <<>>
  IN [ mem |-> MemPut(memGet(m, key, t), key, Entry("number", n, NoIp, Absent, t + ttlSec, times)),
       n |-> n ]

\* getHoneypotHits(ip) at time t: MEM and the count
getHoneypotHits(m, ip, t) ==
  LET key == Key("hp", ip, Absent, NoAsn, NoText) IN
  [ mem |-> memGet(m, key, t),
    n |-> IF MemHas(m, key, t) /\ m[key].typ = "number" THEN m[key].num ELSE 0 ]

RECURSIVE SumSeq(_)
SumSeq(s) == IF s = <<>> THEN 0 ELSE Head(s) + SumSeq(Tail(s))

\* the last n elements of s: s.slice(-n)
LastN(s, n) == SubSeq(s, Max(1, Len(s) - n + 1), Len(s))

\* fast and uniform computed from every history, without the minimum of
\* three timestamps
BehaviorFromTwo(times, unitMs) ==
  LET n == Len(times) - 1
      iv == [i \in 1..n |-> times[i + 1] - times[i]]
      flags(sum, sumSq) ==
        [ fast |-> sum * unitMs < 600 * n,
          uniform |-> (sum = 0 \/ 100 * (n * sumSq - sum * sum) < sum * sum) /\ n >= 4 ]
  IN IF Len(times) < 2 THEN [fast |-> FALSE, uniform |-> FALSE]
     ELSE flags(SumSeq(iv), SumSeq([i \in 1..n |-> iv[i] * iv[i]]))

\* fast and uniform of bumpCountersAndGetPenalty for the timestamps kept,
\* given in units of unitMs milliseconds: mean < 600, and std / mean < 0.10
\* with at least 4 intervals, that is 100 * variance < mean * mean, every term
\* multiplied by the square of the number of intervals; a mean of 0 gives
\* cv = 0
Behavior(times, unitMs) ==
  LET n == Len(times) - 1
      iv == [i \in 1..n |-> times[i + 1] - times[i]]
      flags(sum, sumSq) ==
        [ fast |-> sum * unitMs < 600 * n,
          uniform |-> (sum = 0 \/ 100 * (n * sumSq - sum * sum) < sum * sum) /\ n >= 4 ]
  IN IF Len(times) < 3 THEN [fast |-> FALSE, uniform |-> FALSE]
     ELSE flags(SumSeq(iv), SumSeq([i \in 1..n |-> iv[i] * iv[i]]))

\* the behaviour hints of bumpCountersAndGetPenalty at time t (seconds): MEM
\* with the arrival pushed to the history of the (address, fingerprint) key,
\* and the flags
recordArrival(m, ip, fp, windowSec, t) ==
  LET key == Key("ts", ip, fp, NoAsn, NoText)
      kept(m1, e, times, bh) ==
        [ mem |-> MemPut(m1, key, [e EXCEPT !.times = times]),
          uniform |-> bh.uniform, fast |-> bh.fast ]
      timed(m1, e, times) == kept(m1, e, times, Behavior(times, 1000))
      pushed(m1, e) == timed(m1, e, LastN(Append(e.times, t), 10))
      got(m1) == pushed(m1, IF key \in DOMAIN m1 THEN m1[key]
                            ELSE Entry("number", 0, NoIp, Absent, t + windowSec, <<>>))
  IN got(memGet(m, key, t))

-----------------------------------------------------------------------------
(* utils/rateLimiter.ts with the remote store: every operation with MEM, the *)
(* keys of the remote store, whether UPSTASH_REDIS_REST_URL and _TOKEN are   *)
(* configured (on), and the outcome of each kvFetch it makes                 *)

\* how one fetch of kvFetch ends: the store answers with success; it answers
\* with a non-success status or a body that is no JSON (kvFetch returns
\* null); fetch rejects (kvFetch has no try / catch: the rejection is thrown
\* to the caller)
Outcomes == {"ok", "fail", "throw"}

\* whether the remote store holds the key at time t (seconds): a key set with
\* an expiration is gone when the expiration is reached
RedisLive(s, key, t) == key \in DOMAIN s /\ (s[key].exp = 0 \/ t < s[key].exp)

\* the remote store after INCR key: a missing key starts at 1 with no
\* expiration, a number keeps its expiration
RedisIncr(s, key, t) ==
  MemPut(s, key, IF RedisLive(s, key, t) THEN [s[key] EXCEPT !.num = @ + 1]
                 ELSE Entry("number", 1, NoIp, Absent, 0, <<>>))

\* the remote store after EXPIRE key seconds
RedisExpire(s, key, seconds, t) ==
  IF RedisLive(s, key, t) THEN [s EXCEPT ![key].exp = t + seconds] ELSE s

\* what an operation of the Counter Store leaves and returns: MEM, the remote
\* store, the number or the changed / prev pair returned, and whether it threw
StoreResult(m, s, n, changed, prev, raised) ==
  [mem |-> m, redis |-> s, n |-> n, changed |-> changed, prev |-> prev, raised |-> raised]

\* an operation that throws
Raised(m, s) == StoreResult(m, s, 0, FALSE, NoIp, TRUE)

\* kvIncr(key, ttlSec) at time t, the fetch of /incr ending o1 and that of
\* /expire ending o2
kvIncrKv(m, s, on, key, ttlSec, t, o1, o2) ==
  LET fallback(r) == StoreResult(r.mem, s, r.n, FALSE, NoIp, FALSE)
      \* r.result of /incr is a number: TTL on the first increment
      counted(s1) ==
        IF s1[key].num # 1 THEN StoreResult(m, s1, s1[key].num, FALSE, NoIp, FALSE)
        ELSE IF o2 = "throw" THEN Raised(m, s1)
        ELSE StoreResult(m, IF o2 = "ok" THEN RedisExpire(s1, key, ttlSec, t) ELSE s1,
                         1, FALSE, NoIp, FALSE)
  IN IF on /\ o1 = "throw" THEN Raised(m, s)
     ELSE IF on /\ o1 = "ok" /\ ~(RedisLive(s, key, t) /\ s[key].typ # "number")
       THEN counted(RedisIncr(s, key, t))
     ELSE fallback(kvIncr(m, key, ttlSec, t))

\* getHoneypotHits(ip) at time t, the fetch of /get ending o
getHoneypotHitsKv(m, s, on, ip, t, o) ==
  LET key == Key("hp", ip, Absent, NoAsn, NoText)
      fallback(r) == StoreResult(r.mem, s, r.n, FALSE, NoIp, FALSE)
  IN IF ~on THEN fallback(getHoneypotHits(m, ip, t))
     ELSE IF o = "throw" THEN Raised(m, s)
     ELSE StoreResult(m, s,
            IF o = "ok" /\ RedisLive(s, key, t) /\ s[key].typ = "number"
              THEN s[key].num ELSE 0,
            FALSE, NoIp, FALSE)

\* incHoneypot(ip, ttlSec) at time t
incHoneypotKv(m, s, on, ip, ttlSec, t, o1, o2) ==
  LET key == Key("hp", ip, Absent, NoAsn, NoText)
      after(r) == IF ~r.raised /\ r.n = 0
                    THEN [r EXCEPT !.mem = memSet(r.mem, key, "number", 1, NoIp, Absent, ttlSec, t)]
                  ELSE r
  IN after(kvIncrKv(m, s, on, key, ttlSec, t, o1, o2))

\* getAndSetBinding(key, value, ttlSec) at time t, the fetch of /get ending
\* o1 and that of /setex ending o2
getAndSetBindingKv(m, s, on, key, value, ttlSec, t, o1, o2) ==
  LET fallback(r) == StoreResult(r.mem, s, 0, r.changed, r.prev, FALSE)
      \* prev?.result ?? null
      answered(prev) ==
        IF o2 = "throw" THEN Raised(m, s)
        ELSE StoreResult(m, IF o2 = "ok"
                              THEN MemPut(s, key, Entry("cidr", 0, value, Absent, t + ttlSec, <<>>))
                            ELSE s,
                         0, prev # value, prev, FALSE)
  IN IF ~on THEN fallback(getAndSetBinding(m, key, value, ttlSec, t))
     ELSE IF o1 = "throw" THEN Raised(m, s)
     ELSE answered(IF o1 = "ok" /\ RedisLive(s, key, t) /\ s[key].typ = "cidr"
                     THEN s[key].cidr ELSE NoIp)

\* kvSetEx(key, value, ttlSec) at time t, the fetch of /setex ending o
kvSetExKv(m, s, on, key, value, ttlSec, t, o) ==
  IF on /\ o = "throw" THEN Raised(m, s)
  ELSE IF on /\ o = "ok"
    THEN StoreResult(m, MemPut(s, key, Entry("text", 0, NoIp, value, t + ttlSec, <<>>)),
                     0, FALSE, NoIp, FALSE)
  ELSE StoreResult(kvSetEx(m, key, value, ttlSec, t), s, 0, FALSE, NoIp, FALSE)

\* ipCount > perIp || fpCount > perFp || asnCount > perAsn, at the limits
RateHighAtLimit(ipCount, fpCount, asnCount, rl) ==
  ipCount >= rl.perIp \/ fpCount >= rl.perFp \/ asnCount >= rl.perAsn

\* ipCount > perIp || fpCount > perFp || asnCount > perAsn
RateHigh(ipCount, fpCount, asnCount, rl) ==
  ipCount > rl.perIp \/ fpCount > rl.perFp \/ asnCount > rl.perAsn

\* bumpCountersAndGetPenalty(opts) at time t, the fetch of /incr of the
\* counter i ending o[i]: MEM, the remote store and the penalty; the three
\* kvIncr of Promise.all run to their end, and the call throws when one does
bumpCountersAndGetPenaltyKv(m, s, on, ip, fp, asn, rl, t, o) ==
  LET penalty(a, b, c, h) ==
        [ mem |-> IF a.raised \/ b.raised \/ c.raised THEN c.mem ELSE h.mem,
          redis |-> c.redis,
          raised |-> a.raised \/ b.raised \/ c.raised,
          rateHigh |-> RateHigh(a.n, b.n, c.n, rl),
          count |-> Max(a.n, Max(b.n, c.n)),
          uniform |-> h.uniform, fast |-> h.fast ]
      hinted(a, b, c) == penalty(a, b, c, recordArrival(c.mem, ip, fp, rl.windowSec, t))
      third(a, b) ==
        hinted(a, b, kvIncrKv(b.mem, b.redis, on, Key("rate:asn", NoIp, Absent, asn, NoText),
                              rl.windowSec, t, o[3], "ok"))
      second(a) ==
        third(a, kvIncrKv(a.mem, a.redis, on, Key("rate:fp", NoIp, fp, NoAsn, NoText),
                          rl.windowSec, t, o[2], "ok"))
  IN second(kvIncrKv(m, s, on, Key("rate:ip", ip, Absent, NoAsn, NoText),
                     rl.windowSec, t, o[1], "ok"))

\* bumpCountersAndGetPenalty(opts) at time t with no remote store configured:
\* MEM and the penalty
bumpCountersAndGetPenalty(m, ip, fp, asn, rl, t) ==
  LET result(r) == [ mem |-> r.mem, rateHigh |-> r.rateHigh, count |-> r.count,
                     uniform |-> r.uniform, fast |-> r.fast ]
  IN result(bumpCountersAndGetPenaltyKv(m, <<>>, FALSE, ip, fp, asn, rl, t,
                                        <<"ok", "ok", "ok">>))

-----------------------------------------------------------------------------
(* Threat intelligence: queryIPQS and its cache                              *)

\* IPQS_TTL_MS, in units of now
IPQS_TTL == 2

\* the reputation service gave no answer in time, or none that parses
NoIpqs == [ok |-> FALSE, fraud_score |-> NoNumber, proxy |-> FALSE, vpn |-> FALSE,
           tor |-> FALSE, active_vpn |-> FALSE, active_tor |-> FALSE]

\* queryIPQS(ip, key) at time t when the service answers resp: the cache and
\* the data returned
queryIPQS(cache, ip, hasKey, resp, t) ==
  IF ip = NoIp \/ ~hasKey THEN [cache |-> cache, data |-> NoIpqs]
  ELSE IF ip \in DOMAIN cache /\ t - cache[ip].ts < IPQS_TTL
    THEN [cache |-> cache, data |-> cache[ip].data]
  ELSE IF resp.ok
    THEN [ cache |-> [k \in DOMAIN cache \cup {ip} |->
                        IF k = ip THEN [ts |-> t, data |-> resp] ELSE cache[k]],
           data |-> resp ]
  ELSE [cache |-> cache, data |-> NoIpqs]

-----------------------------------------------------------------------------
(* The ASN watchlist of the Honeypot & Watchlist Tracker: a function from    *)
(* the watched ASNs to the time (seconds) their watch ends                   *)

\* watchASN(asn, ttlSec) at time t
watchASN(w, asn, ttlSec, t) ==
  [a \in DOMAIN w \cup {asn} |-> IF a = asn THEN t + ttlSec ELSE w[a]]

\* isASNWatched(asn) at time t
isASNWatched(w, asn, t) == asn \in DOMAIN w /\ t <= w[asn]

-----------------------------------------------------------------------------
(* The Risk Scorer: isBot of utils/botCheck.ts                               *)

\* a reason tag, and a reason tag that carries a number
R(tag) == [tag |-> tag, n |-> 0]

RN(tag, n) == [tag |-> tag, n |-> n]

\* the reason when the condition holds: if (cond) reasons.push(r)
When(cond, r) == IF cond THEN <<r>> ELSE <<>>

\* w when the condition holds: if (cond) p += w
Add(cond, w) == IF cond THEN w ELSE 0

\* clamp01 without its lower bound: n > 1 ? 1 : n
clampAbove(n) == IF n > 10000 THEN 10000 ELSE n

\* clamp01(n), in 1/10000
clamp01(n) == IF n < 0 THEN 0 ELSE IF n > 10000 THEN 10000 ELSE n

\* value || 'nofp' and String(fpHash || ''): a missing or empty text
IsEmpty(s) == s = Absent \/ s = ""

\* ipToCidr24(ip): null (NoIp) unless the address has four parts
ipToCidr24(ip) == IF Len(ip) = 4 THEN Cidr24(ip) ELSE NoIp

\* the sum p of the weighted combination of isBot before clamping, the
\* signals given
WeightedSum(W, s) ==
  5000
    + Add(s.uaBlocked, W.ua_block) + Add(s.asnBlk, W.asn_black)
    + Add(s.ipBlk, W.ip_black) + Add(s.ptrBot, W.ptr_bot)
    + Add(s.ipqs.ok /\ s.ipqs.fraud_score # NoNumber,
          (Min(100, Max(0, s.ipqs.fraud_score)) * W.ipqs_fraud) \div 100)
    + Add(s.ipqs.proxy, W.ipqs_proxy)
    + Add(s.ipqs.vpn \/ s.ipqs.active_vpn, W.ipqs_vpn)
    + Add(s.ipqs.tor \/ s.ipqs.active_tor, W.ipqs_tor)
    + Add(s.rateHigh, W.rate_high) + Add(s.uniform, W.behavior_uniform)
    + Add(s.fast, W.behavior_fast) + Add(s.ipUntrusted, W.ip_untrusted)
    + Add(s.asnWatched, 1200) + Add(s.tlsPresent, W.tls_present)
    + Add(s.jsValid, W.js_nonce_valid) + Add(s.fpOk, W.fp_ok)
    + Add(s.activityOk, W.activity_ok) + Add(s.hpCount > 0, W.hp_hit)

\* the weighted combination left as it is, without p = clamp01(p)
ProbabilityUnclamped(W, s) == WeightedSum(W, s)

\* the probability p of isBot after clamping, the signals given
Probability(W, s) == clamp01(WeightedSum(W, s))

\* the strict threshold isBot decides bot with
BotStrict(c) == IF c.BOT_THRESHOLD_STRICT # NoNumber THEN c.BOT_THRESHOLD_STRICT ELSE DefaultStrict

\* every fetch of the Counter Store in one isBot succeeds: /get of the
\* honeypot hits, /incr of the three counters, /get and /setex of the binding
AllOk == <<"ok", "ok", "ok", "ok", "ok", "ok">>

\* isBot(request) at time t under configuration c, with MEM m, the remote
\* store, the IPQS cache and the watchlist w, when the reputation service
\* answers ipqsResp, the resolver ptrAnswer and the fetches of the Counter
\* Store end as o: bot, score, reasons, and MEM, the remote store and the
\* cache afterwards; raised when a fetch rejected and isBot threw
isBotKv(req, c, m, store, cache, w, t, ipqsResp, ptrAnswer, o) ==
  LET ts == t * SecPerTick
      on == c.UPSTASH
      \* the exception of the operation that left r
      thrown(r, ch) ==
        [ bot |-> FALSE, score |-> 0, reasons |-> <<>>,
          mem |-> r.mem, redis |-> r.redis, cache |-> ch, raised |-> TRUE ]
      ip == getIP(req)
      asn == getASN(req)
      cidr == ipToCidr24(ip)
      \* the weighted combination and the result, once the lookups hp, q, pen
      \* and bind have returned and the signals s are known
      decide(hp, q, pen, bind, s, p) ==
        [ bot |-> p >= BotStrict(c), score |-> p,
          reasons |->
            When(s.uaBlocked, R("ua:block")) \o When(s.ipBlk, R("ip:blacklist"))
            \o When(s.asnBlk, R("asn:blacklist"))
            \o When(~Includes(Lower(req.accept), TextHtml), R("accept:odd"))
            \o When(Len(req.lang) < 2, R("lang:none"))
            \o When(s.tlsPresent, R("tls:present"))
            \o When(s.ipUntrusted, R("ip:untrusted-source"))
            \o When(s.asnWatched, R("asn:watch"))
            \o When(s.jsValid, R("js:valid"))
            \o When(hp.n > 0, RN("honeypot:", hp.n))
            \o When(q.data.ok /\ q.data.fraud_score # NoNumber, RN("ipqs:", q.data.fraud_score))
            \o When(q.data.proxy, R("ipqs:proxy")) \o When(q.data.vpn, R("ipqs:vpn"))
            \o When(q.data.tor, R("ipqs:tor"))
            \o When(s.ptrBot, R("ptr:bot"))
            \o When(pen.rateHigh, RN("rate:high", pen.count))
            \o When(pen.uniform, R("behavior:uniform"))
            \o When(pen.fast, R("behavior:fast"))
            \o When(bind.changed /\ bind.prev # NoIp /\ bind.prev # cidr, R("fp:ip-rotating")),
          mem |-> bind.mem, redis |-> bind.redis, cache |-> q.cache, raised |-> FALSE ]
      signals(hp, q, pen) ==
        [ uaBlocked |-> isBlockedUserAgent(req.ua),
          ipBlk |-> isBlacklistedIP(ip),
          asnBlk |-> isBlacklistedASN(asn),
          ipUntrusted |-> getProviderContext(req).ipSource \in {"header", "none"},
          tlsPresent |-> req.cf.present /\ req.cf.tlsCipher # Absent,
          asnWatched |-> isASNWatched(w, asn, ts),
          jsValid |-> req.human_signed # NoText /\ Split(req.human_signed, DOT)[1] # <<>>,
          hpCount |-> hp.n,
          ipqs |-> q.data,
          ptrBot |-> reversePTRMatches(ip, ptrAnswer),
          rateHigh |-> pen.rateHigh, uniform |-> pen.uniform, fast |-> pen.fast,
          fpOk |-> fingerprintValid(req),
          activityOk |-> hasHumanActivity(req) ]
      weigh(hp, q, pen, bind, sig) ==
        IF bind.raised THEN thrown(bind, q.cache)
        ELSE decide(hp, q, pen, bind, sig, Probability(MergeWeights(c.WEIGHT_TABLE), sig))
      \* getAndSetBinding for the fp cookie, after the counters
      bound(hp, q, pen) ==
        IF pen.raised THEN thrown(pen, q.cache)
        ELSE weigh(hp, q, pen,
                   IF ~IsEmpty(req.fp) /\ cidr # NoIp
                   THEN getAndSetBindingKv(pen.mem, pen.redis, on,
                                           Key("fp", NoIp, req.fp, NoAsn, NoText),
                                           cidr, 15 * 60, ts, o[5], o[6])
                   ELSE StoreResult(pen.mem, pen.redis, 0, FALSE, NoIp, FALSE),
                   signals(hp, q, pen))
      \* bumpCountersAndGetPenalty, after the honeypot lookup
      counted(hp, q) ==
        IF hp.raised THEN thrown(hp, cache)
        ELSE bound(hp, q,
                   bumpCountersAndGetPenaltyKv(hp.mem, hp.redis, on, ip,
                     IF IsEmpty(req.fp) THEN "nofp" ELSE req.fp,
                     IF asn = 0 THEN NoAsn ELSE asn, c.RATE_LIMIT_CONFIG, ts,
                     <<o[2], o[3], o[4]>>))
  IN counted(getHoneypotHitsKv(m, store, on, ip, ts, o[1]),
             queryIPQS(cache, ip, c.IPQS_API_KEY, ipqsResp, t))

\* isBot(request) when every fetch of the Counter Store succeeds
isBot(req, c, m, cache, w, t, ipqsResp, ptrAnswer) ==
  isBotKv(req, c, m, <<>>, cache, w, t, ipqsResp, ptrAnswer, AllOk)

-----------------------------------------------------------------------------
(* The Decision Engine: middleware of middleware.ts                          *)

\* the decision logged and returned: the verdict, the reasons, the score
\* logged (Math.round(score * 100)) and the challenge token served
Decision(verdict, reasons, score, token) ==
  [verdict |-> verdict, reasons |-> reasons, score |-> score, token |-> token]

\* adv.score.toFixed(2) and Math.round(adv.score * 100): hundredths
Hundredths(p) == (p + 50) \div 100

\* the paths the engine lets through when no offer URL is configured
InactiveBypass(pathname) ==
  \/ StartsWith(pathname, PrefixNext) \/ StartsWith(pathname, PrefixApi)
  \/ pathname = PathSafe \/ isStaticAssetPath(pathname)

\* the paths the engine lets through without cloaking
ExcludedPath(pathname) ==
  \/ StartsWith(pathname, PrefixNext) \/ StartsWith(pathname, PrefixApi)
  \/ pathname = PathHc \/ pathname = PathSafe \/ pathname = PathOffer
  \/ isStaticAssetPath(pathname)

\* the provider tag written into a challenge token
ChallengeProvider(req) ==
  IF req.cf.present THEN "cloudflare"
  ELSE IF req.geo.present \/ req.vercelId THEN "vercel"
  ELSE "unknown"

\* the tlsSig written into a challenge token
ChallengeTlsSig(req) ==
  IF req.cf.present /\ (req.cf.tlsCipher # Absent \/ req.cf.tlsVersion # Absent)
  THEN IF req.cf.tlsCipher = Absent THEN "nc-TLSv1.3"
       ELSE IF req.cf.tlsVersion = Absent THEN "AES128-nv"
       ELSE "AES128-TLSv1.3"
  ELSE "null"

\* the payload of the challenge issued at time t for the variant
ChallengeDoc(req, variant, t) ==
  Doc(t + ChallengeTtl,
      IF getIP(req) # NoIp THEN Cidr24(getIP(req)) ELSE <<0, 0, 0, Zero24>>,
      ChallengeProvider(req),
      IF IsEmpty(req.fp) THEN "nofp" ELSE req.fp,
      ChallengeTlsSig(req), variant)

\* the rules of middleware with the user-agent rule placed after the analyzer
\* and automation rules
EarlyDecisionUaLate(req, c, ptrAnswer) ==
  LET early(verdict, reasons) == Decision(verdict, reasons, NoNumber, NoText)
      auto == AutomationReasons(req)
  IN IF req.path = PathWelcome THEN early("greeting", <<>>)
     ELSE IF ~c.offerUrl
       THEN IF InactiveBypass(req.path) THEN early("bypass", <<R("inactive:env-missing")>>)
            ELSE early("safe", <<R("inactive:env-missing")>>)
     ELSE IF ExcludedPath(req.path) THEN early("bypass", <<R("matcher:excluded")>>)
     ELSE IF req.human_signed # NoText THEN early("offer", <<R("session:signed")>>)
     ELSE IF isTrustedGoogleRef(req) THEN early("offer", <<R("allow:google-ref")>>)
     ELSE IF isBanned(req) THEN early("safe", <<R("cookie:ban")>>)
     ELSE IF isAnalyzerRequest(req) THEN early("safe", <<R("analyzer:detected")>>)
     ELSE IF isLikelyBrowserAutomation(req)
       THEN early("safe", <<R("automation:suspect")>> \o [i \in 1..Len(auto) |-> R(auto[i])])
     ELSE IF isBlockedUserAgent(req.ua) THEN early("safe", <<R("ua:blocklist")>>)
     ELSE IF isBlacklistedIP(getIP(req)) THEN early("safe", <<R("ip:blacklist")>>)
     ELSE IF isBlacklistedASN(getASN(req)) THEN early("safe", <<R("asn:blacklist")>>)
     ELSE IF reversePTRMatches(getIP(req), ptrAnswer) THEN early("safe", <<R("ptr:bot")>>)
     ELSE early("score", <<>>)

\* the rules of middleware with the reverse lookup left to the scorer: a
\* request whose address resolves to a crawler's name is scored
EarlyDecisionPtrScored(req, c, ptrAnswer) ==
  LET early(verdict, reasons) == Decision(verdict, reasons, NoNumber, NoText)
      auto == AutomationReasons(req)
  IN IF req.path = PathWelcome THEN early("greeting", <<>>)
     ELSE IF ~c.offerUrl
       THEN IF InactiveBypass(req.path) THEN early("bypass", <<R("inactive:env-missing")>>)
            ELSE early("safe", <<R("inactive:env-missing")>>)
     ELSE IF ExcludedPath(req.path) THEN early("bypass", <<R("matcher:excluded")>>)
     ELSE IF req.human_signed # NoText THEN early("offer", <<R("session:signed")>>)
     ELSE IF isTrustedGoogleRef(req) THEN early("offer", <<R("allow:google-ref")>>)
     ELSE IF isBanned(req) THEN early("safe", <<R("cookie:ban")>>)
     ELSE IF isBlockedUserAgent(req.ua) THEN early("safe", <<R("ua:blocklist")>>)
     ELSE IF isAnalyzerRequest(req) THEN early("safe", <<R("analyzer:detected")>>)
     ELSE IF isLikelyBrowserAutomation(req)
       THEN early("safe", <<R("automation:suspect")>> \o [i \in 1..Len(auto) |-> R(auto[i])])
     ELSE IF isBlacklistedIP(getIP(req)) THEN early("safe", <<R("ip:blacklist")>>)
     ELSE IF isBlacklistedASN(getASN(req)) THEN early("safe", <<R("asn:blacklist")>>)
     ELSE early("score", <<>>)

\* the rules of middleware before the score, in their order: the decision of
\* the first that matches, or the verdict "score" when none does; ptrAnswer
\* is the resolver's answer
EarlyDecision(req, c, ptrAnswer) ==
  LET early(verdict, reasons) == Decision(verdict, reasons, NoNumber, NoText)
      auto == AutomationReasons(req)
  IN IF req.path = PathWelcome THEN early("greeting", <<>>)
     ELSE IF ~c.offerUrl
       THEN IF InactiveBypass(req.path) THEN early("bypass", <<R("inactive:env-missing")>>)
            ELSE early("safe", <<R("inactive:env-missing")>>)
     ELSE IF ExcludedPath(req.path) THEN early("bypass", <<R("matcher:excluded")>>)
     ELSE IF req.human_signed # NoText THEN early("offer", <<R("session:signed")>>)
     ELSE IF isTrustedGoogleRef(req) THEN early("offer", <<R("allow:google-ref")>>)
     ELSE IF isBanned(req) THEN early("safe", <<R("cookie:ban")>>)
     ELSE IF isBlockedUserAgent(req.ua) THEN early("safe", <<R("ua:blocklist")>>)
     ELSE IF isAnalyzerRequest(req) THEN early("safe", <<R("analyzer:detected")>>)
     ELSE IF isLikelyBrowserAutomation(req)
       THEN early("safe", <<R("automation:suspect")>> \o [i \in 1..Len(auto) |-> R(auto[i])])
     ELSE IF isBlacklistedIP(getIP(req)) THEN early("safe", <<R("ip:blacklist")>>)
     ELSE IF isBlacklistedASN(getASN(req)) THEN early("safe", <<R("asn:blacklist")>>)
     ELSE IF reversePTRMatches(getIP(req), ptrAnswer) THEN early("safe", <<R("ptr:bot")>>)
     ELSE early("score", <<>>)

\* if (adv.bot || adv.score >= strictT)
StrictRule(adv, strictT) == adv.bot \/ adv.score >= strictT

\* if (adv.score >= baseT && adv.score < strictT ||
\*     (ipUntrusted && adv.score >= baseT - 0.05))
ChallengeRule(adv, baseT, strictT, ipUntrusted) ==
  \/ (adv.score >= baseT /\ adv.score < strictT)
  \/ (ipUntrusted /\ adv.score >= baseT - UntrustedMargin)

\* the score rules of middleware for the assessment adv, the token being the
\* one signPayload returns for the challenge
ScoreDecision(req, c, adv, token) ==
  LET exp == getExperimentConfig(ExperimentSeed(req), c)
      reasonsAdv == <<RN("p=", Hundredths(adv.score)),
                      RN("exp:", IndexOf(exp.variant, VariantList))>> \o adv.reasons
      score == Hundredths(adv.score)
  IN IF StrictRule(adv, exp.botThresholdStrict)
       THEN Decision("safe", <<R("adv:strict")>> \o reasonsAdv, score, NoText)
     ELSE IF ChallengeRule(adv, exp.botThreshold, exp.botThresholdStrict,
                           isIpFromUntrustedSource(req))
       THEN Decision("challenge", <<R("adv:medium")>> \o reasonsAdv, score, token)
     ELSE Decision("offer", <<R("adv:low")>> \o reasonsAdv, score, NoText)

-----------------------------------------------------------------------------
(* The API routes (NextApiRequest): pages/api/challenge-nonce.ts and         *)
(* pages/api/verify-challenge.ts                                             *)

\* a JSON body without the fields token, solution, webgl and fpHash
NoBody == [token |-> NoText, solution |-> NoText, webgl |-> Absent, fpHash |-> Absent]

\* a request with the method and no header, from no socket address
BareApiRequest(method) ==
  [ method |-> method, cfip |-> NoIp, tcip |-> NoIp, xri |-> NoIp, xff |-> <<>>,
    vercelId |-> FALSE, vercelCountry |-> FALSE, remoteAddress |-> NoIp,
    body |-> NoBody ]

\* getIp(req) of the API routes
getIp(req) ==
  IF req.cfip # NoIp THEN req.cfip
  ELSE IF req.tcip # NoIp THEN req.tcip
  ELSE IF req.xri # NoIp THEN req.xri
  ELSE IF req.xff # <<>> THEN req.xff[1]
  ELSE req.remoteAddress

\* sameCidr24(a, b)
sameCidr24(a, b) ==
  Len(a) = 4 /\ Len(b) = 4 /\ a[1] = b[1] /\ a[2] = b[2] /\ a[3] = b[3]

\* getReqProvider(req)
getReqProvider(req) ==
  IF req.cfip # NoIp THEN "cloudflare"
  ELSE IF req.vercelId \/ req.vercelCountry THEN "vercel"
  ELSE "unknown"

\* the two leading bytes of a digest take their values below DigestRange
DigestRange == 4

RECURSIVE DigestLoop(_, _, _)
\* the running state of the digest over the code units of data from i on
DigestLoop(data, i, h) ==
  IF i > Len(data) THEN h
  ELSE DigestLoop(data, i + 1, (h * 33 + data[i] + i) % 65521)

\* the first two bytes of createHash('sha256').update(data).digest(): a hash
\* of all of data, each byte reduced to DigestRange values so that a search
\* over few solutions finds two zero bytes
Sha256Head(data) ==
  LET h == DigestLoop(data, 1, 5381)
  IN <<h % DigestRange, (h \div DigestRange) % DigestRange>>

\* the check of the first byte only
PowOkFirstByte(token, solution) == Sha256Head(token \o solution)[1] = 0

\* (h[0] === 0 && h[1] === 0) for h the digest of token + String(solution || '')
PowOk(token, solution) == Sha256Head(token \o solution) = <<0, 0>>

\* a response of an API route: the status, the ok of the body, the token of
\* the body and the value of the human_signed cookie set
Response(status, ok, token, cookie) ==
  [status |-> status, ok |-> ok, token |-> token, cookie |-> cookie]

\* the handler of challenge-nonce.ts at time t, signing with the key k
NonceHandler(req, t, k) ==
  IF req.method # "GET" THEN Response(405, FALSE, NoText, NoText)
  ELSE IF getIp(req) = NoIp THEN Response(400, FALSE, NoText, NoText)
  ELSE Response(200, TRUE,
         signPayload(Stringify(Doc(t + ChallengeTtl, Cidr24(getIp(req)),
                                   getReqProvider(req), Absent, Absent, Absent)), k),
         NoText)

\* the payload of the session cookie: the key exp is written twice and
\* holds the second value, the variant
SessionDoc(ipBase, fpHash, expVariant) ==
  Doc(ExpString(IndexOf(expVariant, VariantList)), ipBase, Absent,
      IF fpHash = Absent THEN "" ELSE fpHash, Absent, Absent)

\* the checks of the handler without the proof-of-work check
VerifyStatusNoPow(req, t, kv) ==
  LET token == req.body.token
      ip == getIp(req)
      \* the checks, v being what verifySignedPayload(token) returned
      checks(v) ==
        LET payload == Parse(v.text)
     IN IF req.method # "POST" THEN 405
        ELSE IF token = NoText THEN 400
        ELSE IF ~v.ok \/ v.text = <<>> THEN 400
        ELSE IF ~Parses(v.text) THEN 500
        ELSE IF ~ExpIsNumber(payload.exp) \/ t > payload.exp THEN 400
        ELSE IF ip = NoIp \/ payload.ip_cidr = NoIp THEN 400
        ELSE IF ~sameCidr24(StripSlash24(ip), StripSlash24(payload.ip_cidr)) THEN 400
        ELSE IF payload.provider # Absent /\ payload.provider # getReqProvider(req) THEN 400
        ELSE 200
  IN checks(verifySignedPayload(token, kv, t))

\* the checks of the handler with an answer of its own, 410, for a token
\* that has expired
VerifyStatusExpiryTold(req, t, kv) ==
  LET token == req.body.token
      ip == getIp(req)
      checks(v) ==
        LET payload == Parse(v.text)
     IN IF req.method # "POST" THEN 405
        ELSE IF token = NoText THEN 400
        ELSE IF ~v.ok \/ v.text = <<>> THEN 400
        ELSE IF ~Parses(v.text) THEN 500
        ELSE IF ~ExpIsNumber(payload.exp) THEN 400
        ELSE IF t > payload.exp THEN 410
        ELSE IF ip = NoIp \/ payload.ip_cidr = NoIp THEN 400
        ELSE IF ~sameCidr24(StripSlash24(ip), StripSlash24(payload.ip_cidr)) THEN 400
        ELSE IF payload.provider # Absent /\ payload.provider # getReqProvider(req) THEN 400
        ELSE IF ~PowOk(token, req.body.solution) THEN 400
        ELSE 200
  IN checks(VerifiedText(token, kv))

\* the checks of the handler of verify-challenge.ts at time t, verifying with
\* the key kv: the status of the first that fails, or 200
VerifyStatus(req, t, kv) ==
  LET token == req.body.token
      ip == getIp(req)
      \* the checks, v being what verifySignedPayload(token) returned
      checks(v) ==
        LET payload == Parse(v.text)
     IN IF req.method # "POST" THEN 405
        ELSE IF token = NoText THEN 400
        ELSE IF ~v.ok \/ v.text = <<>> THEN 400
        ELSE IF ~Parses(v.text) THEN 500
        ELSE IF ~ExpIsNumber(payload.exp) \/ t > payload.exp THEN 400
        ELSE IF ip = NoIp \/ payload.ip_cidr = NoIp THEN 400
        ELSE IF ~sameCidr24(StripSlash24(ip), StripSlash24(payload.ip_cidr)) THEN 400
        ELSE IF payload.provider # Absent /\ payload.provider # getReqProvider(req) THEN 400
        ELSE IF ~PowOk(token, req.body.solution) THEN 400
        ELSE 200
  IN checks(verifySignedPayload(token, kv, t))

\* the handler of verify-challenge.ts at time t with MEM m, verifying with
\* the key kv and signing with the key ks: the response and MEM afterwards
VerifyHandler(req, m, t, kv, ks) ==
  LET fpHash == IF req.body.fpHash = Absent THEN "" ELSE req.body.fpHash
      \* the response with the cookie, and MEM after the two kvSetEx calls
      issue(session, expVariant) ==
        LET sid == SubSeq(session, 1, Min(32, Len(session)))
        IN [ res |-> Response(200, TRUE, NoText, session),
             mem |-> kvSetEx(kvSetEx(m, Key("sess", NoIp, Absent, NoAsn, sid), fpHash,
                                     SessionTtl * SecPerTick, t * SecPerTick),
                             Key("sess:exp", NoIp, Absent, NoAsn, sid), expVariant,
                             SessionTtl * SecPerTick, t * SecPerTick) ]
      sign(expVariant) ==
        issue(signPayload(Stringify(SessionDoc(Cidr24(getIp(req)), fpHash, expVariant)), ks),
              expVariant)
      accept(payload) ==
        sign(IF payload.expVariant = Absent THEN "control" ELSE payload.expVariant)
      answer(status) ==
        IF status # 200 THEN [res |-> Response(status, FALSE, NoText, NoText), mem |-> m]
        ELSE accept(Parse(verifySignedPayload(req.body.token, kv, t).text))
  IN answer(VerifyStatus(req, t, kv))

\* the handler of verify-challenge.ts with the remote store: the two fetches
\* of kvSetEx end as o; Set-Cookie is set before them, and an exception of
\* kvSetEx is answered by the catch block with status 500 on the same
\* response
VerifyHandlerKv(req, m, store, on, t, kv, ks, o) ==
  LET fpHash == IF req.body.fpHash = Absent THEN "" ELSE req.body.fpHash
      ts == t * SecPerTick
      second(session, expVariant, sid, a) ==
        IF a.raised THEN [res |-> Response(500, FALSE, NoText, session),
                          mem |-> a.mem, redis |-> a.redis]
        ELSE LET b == kvSetExKv(a.mem, a.redis, on, Key("sess:exp", NoIp, Absent, NoAsn, sid),
                                expVariant, SessionTtl * SecPerTick, ts, o[2])
             IN [ res |-> IF b.raised THEN Response(500, FALSE, NoText, session)
                          ELSE Response(200, TRUE, NoText, session),
                  mem |-> b.mem, redis |-> b.redis ]
      issue(session, expVariant, sid) ==
        second(session, expVariant, sid,
               kvSetExKv(m, store, on, Key("sess", NoIp, Absent, NoAsn, sid), fpHash,
                         SessionTtl * SecPerTick, ts, o[1]))
      sign(session, expVariant) ==
        issue(session, expVariant, SubSeq(session, 1, Min(32, Len(session))))
      accept(expVariant) ==
        sign(signPayload(Stringify(SessionDoc(Cidr24(getIp(req)), fpHash, expVariant)), ks),
             expVariant)
      answer(status, v) ==
        IF status # 200
          THEN [res |-> Response(status, FALSE, NoText, NoText), mem |-> m, redis |-> store]
        ELSE accept(IF Parse(v.text).expVariant = Absent THEN "control"
                    ELSE Parse(v.text).expVariant)
  IN answer(VerifyStatus(req, t, kv), verifySignedPayload(req.body.token, kv, t))

-----------------------------------------------------------------------------
(* State and steps                                                           *)

NoOp == [op |-> "none", token |-> <<>>, at |-> 0, out |-> NullText]

\* no page request is being processed call by call
NoFlight == [pc |-> "idle"]

\* the state after deployment under the configuration c, with the secret key
InitWith(c, key) ==
  /\ now = 0
  /\ signKeyCfg = key
  /\ issued = {}
  /\ last = NoOp
  /\ cfg = c
  /\ mem = <<>>
  /\ ipqsCache = <<>>
  /\ asnWatch = <<>>
  /\ handled = [pages |-> 0, api |-> 0]
  /\ redis = <<>>
  /\ calls = <<>>
  /\ flight = NoFlight

\* time passes
Tick ==
  /\ now < MaxTime
  /\ now' = now + 1
  /\ UNCHANGED <<signKeyCfg, issued, last, cfg, mem, ipqsCache, asnWatch, handled, storeVars>>

\* the documents a caller signs at time t: expired since a minute, expiring
\* in a minute, without a numeric exp
TokenDocs(t) ==
  { Doc(e, Cidr24(IpHome), Absent, f, Absent, Absent) :
      e \in ({t - 1, t + 1} \cap Nat) \cup {ExpString(1)},
      f \in {"fp-ascii-0123456789", FpNonAscii} }

\* token = await signPayload(JSON.stringify(doc))
Sign(doc) ==
  /\ Cardinality(issued) < MaxIssued
  /\ \E k \in getSignKey(signKeyCfg) :
       LET text == Stringify(doc)
           token == signPayload(text, k)
       IN issued' = issued \cup {[token |-> token, text |-> text]}
  /\ UNCHANGED <<now, signKeyCfg, last, cfg, mem, ipqsCache, asnWatch, handled, storeVars>>

\* out = await verifySignedPayload(token)
Verify(token) ==
  /\ \E k \in getSignKey(signKeyCfg) :
       last' = [op |-> "verify", token |-> token, at |-> now,
                out |-> verifySignedPayload(token, k, now)]
  /\ UNCHANGED <<now, signKeyCfg, issued, cfg, mem, ipqsCache, asnWatch, handled, storeVars>>

\* v with bit k flipped
FlipBit(v, k) == IF (v \div (2 ^ k)) % 2 = 1 THEN v - 2 ^ k ELSE v + 2 ^ k

\* the characters put in the place of character c of a segment: those of the
\* url alphabet whose 6-bit value differs from c's in one bit, the characters
\* '+' and '/' of the standard alphabet, and the separator
TamperChars(c) ==
  ({ ToUrlChar(B64Char(FlipBit(B64Value(FromUrlChar(c)), k))) : k \in 0..5 }
     \cup {PLUS, SLASH, DOT}) \ {c}

\* a token that was issued comes back unchanged
VerifyIssued == \E r \in issued : Verify(r.token)

\* a token that was issued comes back with one character of its payload
\* segment or of its MAC segment replaced
VerifyTampered ==
  \E r \in issued : \E i \in 1..Len(r.token) :
    /\ r.token[i] # DOT
    /\ \E c \in TamperChars(r.token[i]) : Verify(ReplaceAt(r.token, i, c))

\* the record logDecision posts to /api/logs for the decision d
Report(d) == [decision |-> d.verdict, reasons |-> d.reasons, score |-> d.score]

\* logDecision with the fetch awaited and its rejection not caught: it
\* returns only when the submission has been answered
logDecisionAwaited(d, edge, sub) ==
  [ reports |-> IF edge = "throw" THEN <<>> ELSE <<Report(d)>>,
    returned |-> edge = "throw" \/ sub \in {"ok", "fail"} ]

\* logDecision(req, decision, reasons, score) for the decision d, when
\* edgeGet('LOGS_API_TOKEN') ends as edge ("value", "null" or "throw") and
\* the fetch of /api/logs as sub ("ok", "fail", "throw" or "hang"): the
\* reports submitted, and whether the call returns to middleware. An
\* exception of edgeGet leaves the try block before the fetch; the fetch is
\* not awaited and its rejection is caught
logDecision(d, edge, sub) ==
  [ reports |-> IF edge = "throw" THEN <<>> ELSE <<Report(d)>>,
    returned |-> TRUE ]

\* middleware(req), the reputation service answering ipqsResp, the resolver
\* ptr1 to the engine and ptr2 to the scorer, the fetches of the Counter
\* Store ending as o, the read of the log token as edge and the submission
\* of the report as sub; when isBot throws the request ends without a
\* decision
RespondLogging(req, ipqsResp, ptr1, ptr2, o, edge, sub) ==
  /\ handled.pages < MaxPages
  /\ handled' = [handled EXCEPT !.pages = @ + 1]
  /\ \E k \in getSignKey(signKeyCfg) :
       \E early \in {EarlyDecision(req, cfg, ptr1)} :
       \E adv \in {isBotKv(req, cfg, mem, redis, ipqsCache, asnWatch, now, ipqsResp,
                            ptr2, o)} :
       \E text \in {Stringify(ChallengeDoc(req,
                       getExperimentConfig(ExperimentSeed(req), cfg).variant, now))} :
       \E token \in {signPayload(text, k)} :
       \E made \in {IF early.verdict # "score" THEN early
                     ELSE IF adv.raised THEN Decision("error", <<>>, NoNumber, NoText)
                     ELSE ScoreDecision(req, cfg, adv, token)} :
       \E log \in {IF made.verdict \in {"greeting", "error"}
                    THEN [reports |-> <<>>, returned |-> TRUE]
                    ELSE logDecision(made, edge, sub)} :
       \E out \in {IF log.returned THEN made
                    ELSE Decision("error", <<>>, NoNumber, NoText)} :
         LET scored == early.verdict = "score"
         IN /\ last' = [op |-> "middleware", req |-> req, at |-> now, out |-> out,
                        ptr1 |-> ptr1, scored |-> scored,
                        p |-> IF scored THEN adv.score ELSE NoNumber,
                        reports |-> log.reports, log |-> <<edge, sub>>]
            /\ mem' = IF scored THEN adv.mem ELSE mem
            /\ redis' = IF scored THEN adv.redis ELSE redis
            /\ ipqsCache' = IF scored THEN adv.cache ELSE ipqsCache
            /\ issued' = IF out.verdict = "challenge"
                         THEN issued \cup {[token |-> token, text |-> text]}
                         ELSE issued
  /\ UNCHANGED <<now, signKeyCfg, cfg, asnWatch>>

\* middleware(req) when the log token is read and the report is accepted
Respond(req, ipqsResp, ptr1, ptr2, o) ==
  RespondLogging(req, ipqsResp, ptr1, ptr2, o, "null", "ok")

\* middleware(req) from its first line to its last in one step
Middleware(req, ipqsResp, ptr1, ptr2) ==
  Respond(req, ipqsResp, ptr1, ptr2, AllOk) /\ UNCHANGED <<calls, flight>>

\* watchASN(String(asn), 2 * 60 * 60) of the honeytrap
WatchTtl == 2 * 60 * 60

\* GET of app/api/honeytrap/route.ts, the fetches of incHoneypot ending as
\* o: an exception of incHoneypot leaves the try block before watchASN
HoneytrapKv(req, o) ==
  /\ handled.api < MaxApi
  /\ handled' = [handled EXCEPT !.api = @ + 1]
  /\ \E inc \in {incHoneypotKv(mem, redis, cfg.UPSTASH, getIP(req), 6 * 60 * 60,
                                 now * SecPerTick, o[1], o[2])} :
       /\ mem' = inc.mem
       /\ redis' = inc.redis
       /\ asnWatch' = IF ~inc.raised /\ getASN(req) # NoAsn
                      THEN watchASN(asnWatch, getASN(req), WatchTtl, now * SecPerTick)
                      ELSE asnWatch
       /\ last' = [op |-> "honeytrap", req |-> req, at |-> now, raised |-> inc.raised]
  /\ UNCHANGED <<now, signKeyCfg, issued, cfg, ipqsCache, calls, flight>>

\* GET of app/api/honeytrap/route.ts when every fetch succeeds
Honeytrap(req) == HoneytrapKv(req, <<"ok", "ok">>)

\* POST (or another method) to pages/api/verify-challenge.ts, the fetches of
\* the two kvSetEx calls ending as o
VerifyChallengeKv(req, o) ==
  /\ handled.api < MaxApi
  /\ handled' = [handled EXCEPT !.api = @ + 1]
  /\ \E kv \in getSignKey(signKeyCfg) : \E ks \in getSignKey(signKeyCfg) :
       \E r \in {VerifyHandlerKv(req, mem, redis, cfg.UPSTASH, now, kv, ks, o)} :
         /\ last' = [op |-> "verify-challenge", req |-> req, at |-> now, res |-> r.res]
         /\ mem' = r.mem
         /\ redis' = r.redis
         /\ issued' = IF r.res.cookie # NoText
                      THEN issued \cup {[token |-> r.res.cookie,
                                         text |-> VerifiedText(r.res.cookie, ks).text]}
                      ELSE issued
  /\ UNCHANGED <<now, signKeyCfg, cfg, ipqsCache, asnWatch, calls, flight>>

\* POST (or another method) to pages/api/verify-challenge.ts
VerifyChallenge(req) ==
  /\ handled.api < MaxApi
  /\ handled' = [handled EXCEPT !.api = @ + 1]
  /\ \E kv \in getSignKey(signKeyCfg) : \E ks \in getSignKey(signKeyCfg) :
       \E r \in {VerifyHandler(req, mem, now, kv, ks)} :
         /\ last' = [op |-> "verify-challenge", req |-> req, at |-> now, res |-> r.res]
         /\ mem' = r.mem
         /\ issued' = IF r.res.cookie # NoText
                      THEN issued \cup {[token |-> r.res.cookie,
                                         text |-> VerifiedText(r.res.cookie, ks).text]}
                      ELSE issued
  /\ UNCHANGED <<now, signKeyCfg, cfg, ipqsCache, asnWatch, storeVars>>

\* GET (or another method) to pages/api/challenge-nonce.ts
ChallengeNonce(req) ==
  /\ Cardinality(issued) < MaxIssued
  /\ \E k \in getSignKey(signKeyCfg) : \E res \in {NonceHandler(req, now, k)} :
       /\ last' = [op |-> "challenge-nonce", req |-> req, at |-> now, res |-> res]
       /\ issued' = IF res.token # NoText
                    THEN issued \cup {[token |-> res.token,
                                       text |-> VerifiedText(res.token, k).text]}
                    ELSE issued
  /\ UNCHANGED <<now, signKeyCfg, cfg, mem, ipqsCache, asnWatch, handled, storeVars>>

-----------------------------------------------------------------------------
(* The Token Service on its own: payloads are signed, time passes, and the   *)
(* tokens come back for verification, as issued or with one character of a   *)
(* segment replaced                                                          *)

Init == \E key \in {NoKey, ConfiguredKey} : InitWith(DefaultConfig, key)

NextToken ==
  \/ Tick
  \/ \E doc \in TokenDocs(now) : Sign(doc)
  \/ VerifyIssued

SpecToken == Init /\ [][NextToken]_vars

NextTamper ==
  \/ \E doc \in TokenDocs(now) : Sign(doc)
  \/ VerifyIssued
  \/ VerifyTampered

SpecTamper == Init /\ [][NextTamper]_vars

-----------------------------------------------------------------------------
(* The requests of the model                                                 *)

\* a human_signed cookie that no signPayload call produced: "x.y"
Forged == <<120, 46, 121>>

\* an ASN that is on no list
AsnHome == 64500

\* how a request reaches the engine: through a generic proxy that sets
\* x-forwarded-for, through Vercel (req.ip, req.geo), through Cloudflare
\* (req.cf, cf-connecting-ip), each from a residential or a cloud network
Sources ==
  [ xff |-> [xff |-> <<IpHome>>, cfip |-> NoIp, ip |-> NoIp, cf |-> NoCf, geo |-> NoGeo,
             vercelId |-> FALSE],
    xffCloud |-> [xff |-> <<IpCloud>>, cfip |-> NoIp, ip |-> NoIp, cf |-> NoCf,
                  geo |-> NoGeo, vercelId |-> FALSE],
    vercel |-> [xff |-> <<IpHome>>, cfip |-> NoIp, ip |-> IpHome, cf |-> NoCf,
                geo |-> [present |-> TRUE, asn |-> AsnHome], vercelId |-> TRUE],
    vercelCloud |-> [xff |-> <<IpOther>>, cfip |-> NoIp, ip |-> IpOther, cf |-> NoCf,
                     geo |-> [present |-> TRUE, asn |-> 16509], vercelId |-> TRUE],
    cloudflare |-> [xff |-> <<IpHome>>, cfip |-> IpHome, ip |-> NoIp,
                    cf |-> [present |-> TRUE, asn |-> AsnHome, tlsCipher |-> "AES128",
                            tlsVersion |-> "TLSv1.3"],
                    geo |-> NoGeo, vercelId |-> FALSE] ]

\* the referer and the navigation headers that come with it
Referrals ==
  [ none |-> [referer |-> NoText, sfu |-> NoText, sfd |-> NoText, sfm |-> NoText],
    google |-> [referer |-> RefGoogle, sfu |-> SfuUser, sfd |-> SfdDocument,
                sfm |-> SfmNavigate],
    googleAd |-> [referer |-> RefGoogleAd, sfu |-> NoText, sfd |-> NoText, sfm |-> NoText],
    userContent |-> [referer |-> RefUserContent, sfu |-> SfuUser, sfd |-> SfdDocument,
                     sfm |-> SfmNavigate],
    pageSpeed |-> [referer |-> RefPageSpeed, sfu |-> NoText, sfd |-> NoText, sfm |-> NoText],
    other |-> [referer |-> RefOther, sfu |-> NoText, sfd |-> NoText, sfm |-> NoText] ]

\* a page view: the request of a browser with English as its language
PageView(path, ua, accept, src, ref, session, ban, fp, activity) ==
  [ BareRequest(path) EXCEPT
      !.ua = ua, !.accept = accept, !.lang = LangEn,
      !.xff = Sources[src].xff, !.cfip = Sources[src].cfip, !.ip = Sources[src].ip,
      !.cf = Sources[src].cf, !.geo = Sources[src].geo, !.vercelId = Sources[src].vercelId,
      !.referer = Referrals[ref].referer, !.sfu = Referrals[ref].sfu,
      !.sfd = Referrals[ref].sfd, !.sfm = Referrals[ref].sfm,
      !.human_signed = session, !.ban = ban, !.fp = fp,
      !.act = activity, !.hc = activity ]

\* the tokens signPayload has returned so far
IssuedTokens == { r.token : r \in issued }

\* the page view of a browser that reaches the engine through Vercel, with
\* no cookie and no referer
PlainView == PageView(PathRoot, UaChrome, AcceptHtml, "vercel", "none", NoText, NoText,
                      Absent, NoText)

\* the requests sent to the Decision Engine when its rules are examined:
\* page views of / with every combination of user-agent, session cookie,
\* referral and ban marker; views of the other paths; and the plain view with
\* one header or the source changed
EngineRequests ==
  { PageView(PathRoot, ua, AcceptHtml, "xff", ref, session, ban, Absent, NoText) :
      ua \in {UaChrome, UaCurl}, ref \in {"none", "google"},
      session \in {NoText, Forged} \cup IssuedTokens, ban \in {NoText, One} }
  \cup
  { PageView(path, ua, AcceptHtml, "xff", "none", session, NoText, Absent, NoText) :
      path \in {PathLanding, PathWelcome, PathNext, PathApi, PathHc, PathSafe,
                PathOffer, PathAsset},
      ua \in {UaChrome, UaCurl}, session \in {NoText, Forged} }
  \cup
  { PageView(PathRoot, UaChrome, AcceptHtml, src, ref, NoText, NoText, fp, NoText) :
      src \in {"vercel", "xffCloud", "vercelCloud", "cloudflare"},
      ref \in {"none", "googleAd", "userContent", "pageSpeed", "other"},
      fp \in {Absent, "fp-ascii-0123456789"} }
  \cup { [PlainView EXCEPT !.ua = ua] : ua \in {NoText, UaHeadless, UaNodeJs} }
  \cup { [PlainView EXCEPT !.accept = AcceptAny], [PlainView EXCEPT !.lang = NoText],
         [PlainView EXCEPT !.xlh = One], [PlainView EXCEPT !.purpose = PurposePrefetch] }

\* the configurations under which the rules are examined: the offer URL set,
\* and missing
EngineConfigs == {DefaultConfig, [DefaultConfig EXCEPT !.offerUrl = FALSE]}

InitEngine == \E c \in EngineConfigs : InitWith(c, ConfiguredKey)

NextEngine ==
  \/ Tick
  \/ \E doc \in TokenDocs(now) : Sign(doc)
  \/ \E req \in EngineRequests : \E ptr1 \in BOOLEAN : Middleware(req, NoIpqs, ptr1, FALSE)

SpecEngine == InitEngine /\ [][NextEngine]_vars

-----------------------------------------------------------------------------
(* Claims about the Token Service *)

\* the records of the tokens issued for the token verified last
IssuedAsLast == { r \in issued : r.token = last.token }

\* the exp field of a payload text that was signed
ExpOf(text) == Parse(text).exp

\* C1: with a signing secret configured, verifySignedPayload(signPayload(P))
\* returns exactly P for every payload P whose exp lies in the future at
\* verification time.
C1_RoundTrip ==
  (Len(signKeyCfg) > 0 /\ last.op = "verify") =>
    \A r \in IssuedAsLast :
      (ExpIsNumber(ExpOf(r.text)) /\ ExpOf(r.text) > last.at) => last.out = Text(r.text)

\* a payload holding a non-ASCII fingerprint, signed, has been verified before
\* its expiry and has come back
C1_Witness ==
  /\ Len(signKeyCfg) > 0 /\ last.op = "verify" /\ last.out.ok
  /\ \E r \in IssuedAsLast :
       /\ ExpIsNumber(ExpOf(r.text)) /\ ExpOf(r.text) > last.at
       /\ Parse(r.text).fpHash = FpNonAscii

\* C2: verifySignedPayload(signPayload(P)) returns null for every payload P
\* whose exp lies in the past at verification time, although the signature is
\* correct.
C2_ExpiredRejected ==
  last.op = "verify" =>
    \A r \in IssuedAsLast :
      (ExpIsNumber(ExpOf(r.text)) /\ ExpOf(r.text) < last.at) => last.out = NullText

\* an expired token whose signature is correct has been verified
C2_Witness ==
  /\ last.op = "verify"
  /\ \E r \in IssuedAsLast :
       /\ ExpIsNumber(ExpOf(r.text)) /\ ExpOf(r.text) < last.at
       /\ \E k \in getSignKey(signKeyCfg) : VerifiedText(last.token, k) = Text(r.text)

\* C3: any modification of the payload segment or of the MAC segment makes
\* verifySignedPayload return null: no token other than one produced by
\* signPayload is ever accepted.
C3_OnlyIssuedAccepted ==
  (last.op = "verify" /\ last.out.ok) => \E r \in issued : r.token = last.token

-----------------------------------------------------------------------------
(* Claims about the rules of the Decision Engine *)

\* the request reaches the session rule: the engine is active and the path is
\* neither /welcome nor excluded
SessionRuleReached(req, c) ==
  req.path # PathWelcome /\ c.offerUrl /\ ~ExcludedPath(req.path)

\* the token is one whose MAC verifies at time t under the secret and whose
\* payload holds an expiry in the future
ValidSession(token, t) ==
  /\ token # NoText
  /\ \E k \in getSignKey(signKeyCfg) :
       LET v == verifySignedPayload(token, k, t)
       IN v.ok /\ Parses(v.text) /\ ExpIsNumber(Parse(v.text).exp) /\ Parse(v.text).exp > t

\* the decision is the one of the session fast path
FastPathed(out) == out.verdict = "offer" /\ out.reasons = <<R("session:signed")>>

\* C4: the engine takes the session fast path (decision offer, reason
\* session:signed) if and only if the request carries a human_signed token
\* whose MAC verifies and whose expiry is in the future; a forged, tampered or
\* expired value is not fast-pathed.
C4_FastPathIffValidSession ==
  (last.op = "middleware" /\ SessionRuleReached(last.req, cfg)) =>
    (FastPathed(last.out) <=> ValidSession(last.req.human_signed, last.at))

FirstMatchingRule(req, t, ptrAnswer) ==
  IF ExcludedPath(req.path) THEN "matcher:excluded"
  ELSE IF ValidSession(req.human_signed, t) THEN "session:signed"
  ELSE IF isTrustedGoogleRef(req) THEN "allow:google-ref"
  ELSE IF isBanned(req) THEN "cookie:ban"
  ELSE IF isBlockedUserAgent(req.ua) THEN "ua:blocklist"
  ELSE IF isAnalyzerRequest(req) THEN "analyzer:detected"
  ELSE IF isLikelyBrowserAutomation(req) THEN "automation:suspect"
  ELSE IF isBlacklistedIP(getIP(req)) THEN "ip:blacklist"
  ELSE IF isBlacklistedASN(getASN(req)) THEN "asn:blacklist"
  ELSE IF reversePTRMatches(getIP(req), ptrAnswer) THEN "ptr:bot"
  ELSE "score"

\* C6: for every request the active engine decides, the decision is the one
\* of the first matching rule in the order bypass, session, allowlist, ban
\* marker, user-agent, analyzer or automation, address, ASN, reverse DNS, and
\* the score rules decide only when none of them matches.
C6_FirstMatchWins ==
  (last.op = "middleware" /\ cfg.offerUrl /\ last.req.path # PathWelcome) =>
    LET rule == FirstMatchingRule(last.req, last.at, last.ptr1)
    IN IF rule = "score" THEN last.scored
       ELSE ~last.scored /\ last.out.reasons[1] = R(rule)

-----------------------------------------------------------------------------
(* The score rules: page views that reach the Risk Scorer, after visits to   *)
(* the honeytrap, under configurations that set thresholds                   *)

\* the configurations under which the score rules are examined: the
\* defaults; a strict threshold for the control variant above, and below, the
\* global one; a global strict threshold; a global base threshold; and an A/B
\* experiment whose variant A has thresholds of its own
ScoreConfigs ==
  { DefaultConfig,
    [DefaultConfig EXCEPT !.BOT_THRESHOLD_STRICT_V.control = 7000],
    [DefaultConfig EXCEPT !.BOT_THRESHOLD_STRICT_V.control = 6000],
    [DefaultConfig EXCEPT !.BOT_THRESHOLD_STRICT = 7000],
    [DefaultConfig EXCEPT !.BOT_THRESHOLD = 5000],
    [DefaultConfig EXCEPT !.EXPERIMENT_MODE = "ab", !.BOT_THRESHOLD_V.A = 5000,
                          !.BOT_THRESHOLD_STRICT_V.A = 7000] }

\* page views of / by a browser without session, ban marker and referer:
\* every source of the address, with and without a fingerprint cookie and the
\* activity cookies
ScoreRequests ==
  { PageView(PathRoot, UaChrome, AcceptHtml, src, "none", NoText, NoText, fp, activity) :
      src \in {"xff", "vercel", "cloudflare"},
      fp \in {Absent, "fp-ascii-0123456789"}, activity \in {NoText, One} }

\* the visits to the honeytrap: through a generic proxy and through Vercel
TrapRequests ==
  { PageView(PathApi, UaChrome, AcceptHtml, src, "none", NoText, NoText, Absent, NoText) :
      src \in {"xff", "vercel"} }

InitScore == \E c \in ScoreConfigs : InitWith(c, ConfiguredKey)

NextScore ==
  \/ Tick
  \/ \E req \in TrapRequests : Honeytrap(req)
  \/ \E req \in ScoreRequests : \E ptr2 \in BOOLEAN :
       Middleware(req, NoIpqs, FALSE, ptr2)

SpecScore == InitScore /\ [][NextScore]_vars

-----------------------------------------------------------------------------
(* Claims about the score rules *)

\* the strict threshold in effect for the request: the one of its experiment
\* variant when configured, else the global one, else 0.65
StrictInEffect(req, c) ==
  LET variant == getExperimentConfig(ExperimentSeed(req), c).variant
  IN Coalesce(c.BOT_THRESHOLD_STRICT_V[variant], c.BOT_THRESHOLD_STRICT, DefaultStrict)

\* the base threshold in effect for the request
BaseInEffect(req, c) ==
  LET variant == getExperimentConfig(ExperimentSeed(req), c).variant
  IN Coalesce(c.BOT_THRESHOLD_V[variant], c.BOT_THRESHOLD, DefaultThreshold)

\* C7: a request that reaches the Risk Scorer is decided safe if and only if
\* its probability is greater than or equal to the strict threshold in effect
\* for it; a probability below that threshold is never decided safe by score.
C7_SafeIffStrict ==
  (last.op = "middleware" /\ last.scored) =>
    (last.out.verdict = "safe" <=> last.p >= StrictInEffect(last.req, cfg))

\* C8: a request that reaches the Risk Scorer with a probability p below the
\* strict threshold is challenged when base <= p, or when the address source
\* is untrusted and p >= base - 0.05, and passes to the offer in every other
\* case.
C8_ChallengeOrPass ==
  (last.op = "middleware" /\ last.scored /\ last.p < StrictInEffect(last.req, cfg)) =>
    last.out.verdict =
      IF \/ BaseInEffect(last.req, cfg) <= last.p
         \/ /\ isIpFromUntrustedSource(last.req)
            /\ last.p >= BaseInEffect(last.req, cfg) - UntrustedMargin
      THEN "challenge" ELSE "offer"

-----------------------------------------------------------------------------
(* The challenge flow: a page view is challenged or a nonce is fetched, time *)
(* passes, and the browser or somebody else posts to the verification route  *)

\* the script of the challenge page stops its search at n = 200000
SearchLimit == 48

RECURSIVE SolveFrom(_, _)
\* the n the script of the challenge page submits, its search starting at n:
\* the first for which the digest of token + String(n) starts with two zero
\* bytes, or the limit
SolveFrom(token, n) ==
  IF n >= SearchLimit \/ Sha256Head(token \o Digits(n)) = <<0, 0>> THEN n
  ELSE SolveFrom(token, n + 1)

\* how a request reaches the API routes: through a generic proxy from the
\* address the page was viewed from, from its neighbour in the same /24, from
\* another network; through Vercel; through Cloudflare; with no address
ApiSources ==
  [ home |-> [BareApiRequest("POST") EXCEPT !.xff = <<IpHome>>],
    neighbour |-> [BareApiRequest("POST") EXCEPT !.xff = <<IpNeighbour>>],
    other |-> [BareApiRequest("POST") EXCEPT !.xff = <<IpOther>>],
    vercel |-> [BareApiRequest("POST") EXCEPT !.xff = <<IpHome>>, !.vercelId = TRUE],
    cloudflare |-> [BareApiRequest("POST") EXCEPT !.xff = <<IpHome>>, !.cfip = IpHome],
    none |-> BareApiRequest("POST") ]

\* the POST of the body { token, solution, fpHash } from the source
Submission(src, token, solution, fpHash) ==
  [ApiSources[src] EXCEPT !.body = [token |-> token, solution |-> solution,
                                    webgl |-> Absent, fpHash |-> fpHash]]

\* the page views that are challenged under the default configuration
ChallengedViews ==
  { PageView(PathRoot, UaChrome, AcceptHtml, "vercel", "none", NoText, NoText, Absent, NoText),
    PageView(PathRoot, UaChrome, AcceptHtml, "cloudflare", "none", NoText, NoText, Absent, NoText),
    PageView(PathRoot, UaChrome, AcceptHtml, "xff", "none", NoText, NoText,
             "fp-ascii-0123456789", One) }

\* the requests for a nonce
NonceRequests ==
  { [ApiSources[src] EXCEPT !.method = "GET"] : src \in {"home", "vercel", "cloudflare", "none"} }
  \cup {ApiSources["home"]}

\* the posts to the verification route: every issued token with the solution
\* the script finds, from every source and with every fingerprint; with
\* another solution, with none and with the solution found for another
\* issued token; no token and a forged one; and a GET
Submissions ==
  UNION { LET n == SolveFrom(tok, 0) IN
          { Submission(src, tok, Digits(n), fp) :
              src \in DOMAIN ApiSources,
              fp \in {Absent, "fp-ascii-0123456789", FpNonAscii} }
          \cup
          { Submission(src, tok, sol, Absent) :
              src \in {"home", "vercel", "cloudflare"},
              sol \in {NoText, Digits(n + 1)} } : tok \in IssuedTokens }
  \cup UNION { { Submission(src, tok, Digits(SolveFrom(other, 0)), Absent) :
                   src \in {"home", "vercel", "cloudflare"},
                   tok \in IssuedTokens \ {other} } : other \in IssuedTokens }
  \cup { Submission("home", tok, NoText, Absent) : tok \in {NoText, Forged} }
  \cup { [ApiSources["home"] EXCEPT !.method = "GET"] }

NextVerify ==
  \/ Tick
  \/ \E req \in ChallengedViews : Middleware(req, NoIpqs, FALSE, FALSE)
  \/ \E req \in NonceRequests : ChallengeNonce(req)
  \/ \E req \in Submissions : VerifyChallenge(req)

InitVerify == InitWith(DefaultConfig, ConfiguredKey)

SpecVerify == InitVerify /\ [][NextVerify]_vars

-----------------------------------------------------------------------------
(* Claims about the verification route *)

\* the verification route has just set the human_signed cookie
SessionIssued == last.op = "verify-challenge" /\ last.res.cookie # NoText

\* the checks named for the token and the request, a token being unexpired
\* when its expiry is at least minExp: the MAC verifies, the expiry is a
\* number not below minExp, ip_cidr is the /24 of the requester's address and
\* the provider tag is the requester's classification
TokenChecksPass(req, minExp) ==
  \E k \in getSignKey(signKeyCfg) : \E v \in {VerifiedText(req.body.token, k)} :
    /\ v.ok /\ Parses(v.text)
    /\ \E d \in {Parse(v.text)} :
         /\ ExpIsNumber(d.exp) /\ d.exp >= minExp
         /\ getIp(req) # NoIp /\ d.ip_cidr = ipToCidr24(getIp(req))
         /\ d.provider = getReqProvider(req)

\* the checks named for the token, the solution and the request: those of
\* the token, and the digest of token + solution starts with two zero bytes
ChecksPass(req, minExp) ==
  TokenChecksPass(req, minExp) /\ PowOk(req.body.token, req.body.solution)

\* C9 as amended: the verification route sets the human_signed cookie only
\* when the token's MAC verifies, its expiry is not in the past (the instant
\* of expiry included), its ip_cidr is the /24 of the requester's address, its
\* provider tag equals the requester's classification and the digest of
\* token + solution starts with two zero bytes.
C9_SessionOnlyAfterChecks == SessionIssued => ChecksPass(last.req, last.at)

\* a session cookie has been set for a token that had not reached its expiry
C9_Witness ==
  /\ SessionIssued
  /\ \E r \in issued : r.token = last.req.body.token /\ ExpOf(r.text) > last.at

\* C9: the verification route sets the human_signed cookie only when the
\* token's MAC verifies, its expiry is in the future, its ip_cidr is the /24
\* of the requester's address, its provider tag equals the requester's
\* classification and the digest of token + solution starts with two zero
\* bytes.
C9_SessionOnlyBeforeExpiry == SessionIssued => ChecksPass(last.req, last.at + 1)

\* C10: the verification route rejects a token whose fpHash differs from the
\* fingerprint submitted with the verification request, as it rejects a
\* network-prefix or provider mismatch: a session is issued only for a token
\* whose fpHash, when it carries one, is the submitted one.
C10_FingerprintBound ==
  SessionIssued =>
    \A r \in issued :
      (r.token = last.req.body.token /\ Parse(r.text).fpHash # Absent) =>
        Parse(r.text).fpHash = (IF last.req.body.fpHash = Absent THEN ""
                                ELSE last.req.body.fpHash)


\* the n the script of the challenge page finds for the token, or NoNumber
\* when its search ends at the limit
FoundSolution(token) ==
  LET found(n) == IF n < SearchLimit THEN n ELSE NoNumber IN found(SolveFrom(token, 0))

\* the digest of token||solution has its first two bytes zero
ZeroDigest(token, solution) ==
  \A i \in 1..2 : Sha256Head(token \o solution)[i] = 0

\* the tokens issued for a challenge: those whose expiry is a number
ChallengeTokens == { r.token : r \in { x \in issued : ExpIsNumber(ExpOf(x.text)) } }

\* the verification route has answered a post whose token passes its checks
TokenAccepted == last.op = "verify-challenge" /\ TokenChecksPass(last.req, last.at)

\* the post answered last carries the solution the script found for a token
\* of the set
CarriesSolutionOf(tokens) ==
  \E a \in tokens :
    FoundSolution(a) # NoNumber /\ last.req.body.solution = Digits(FoundSolution(a))

\* C11 as amended: proof-of-work verification accepts a (token, solution)
\* pair exactly when the digest of token||solution has its first two bytes
\* zero: the solution n found by the client search for a token passes
\* verification for that token; a solution found for token A, and a missing
\* solution, are accepted with a token B exactly when the digest of B||solution
\* starts with two zero bytes as well.
C11_PowExactlyZeroDigest ==
  TokenAccepted =>
    /\ (last.res.status = 200) <=> ZeroDigest(last.req.body.token, last.req.body.solution)
    /\ CarriesSolutionOf({last.req.body.token}) => last.res.status = 200

\* the solution found for a token has been accepted for that token
C11_Witness ==
  /\ TokenAccepted /\ last.res.status = 200
  /\ CarriesSolutionOf({last.req.body.token})

\* C11: proof-of-work verification accepts a (token, solution) pair exactly
\* when the digest of token||solution has its first two bytes zero: the
\* solution n found by the client search for a token passes verification for
\* that token, a solution found for token A is rejected when submitted with a
\* different token B, and a missing solution is rejected.
C11_PowRejectsOtherSolutions ==
  TokenAccepted =>
    /\ (last.res.status = 200) <=> ZeroDigest(last.req.body.token, last.req.body.solution)
    /\ CarriesSolutionOf({last.req.body.token}) => last.res.status = 200
    /\ CarriesSolutionOf(ChallengeTokens \ {last.req.body.token}) => last.res.status # 200
    /\ last.req.body.solution = NoText => last.res.status # 200


\* C20: when no signing secret is configured, one ephemeral secret is
\* generated per process and used for every later sign and verify in that
\* process: a token issued by signPayload is accepted by a later
\* verifySignedPayload in the same process while it is unexpired.
C20_EphemeralKeyStable ==
  (signKeyCfg = NoKey /\ last.op = "verify") =>
    \A r \in IssuedAsLast :
      (ExpIsNumber(ExpOf(r.text)) /\ ExpOf(r.text) > last.at) => last.out = Text(r.text)


-----------------------------------------------------------------------------
(* The Counter Store called operation by operation, with no remote store    *)
(* configured and with one that answers, fails or makes fetch reject        *)

\* the key of a rate counter, of a fingerprint binding and of a session
CounterKey == Key("rate:ip", IpHome, Absent, NoAsn, NoText)

BindingKey == Key("fp", NoIp, "fp-ascii-0123456789", NoAsn, NoText)

SessKey == Key("sess", NoIp, Absent, NoAsn, <<115>>)

\* ttlSec of the calls: two units of now
WindowTtl == 2 * SecPerTick

\* ttlSec = 6 * 60 * 60 of incHoneypot
HoneypotTtl == 6 * 60 * 60

\* the outcomes of the two fetches of kvIncr and of getAndSetBinding
IncrOutcomes ==
  {<<"ok", "ok">>, <<"ok", "fail">>, <<"fail", "ok">>, <<"throw", "ok">>}

BindOutcomes == IncrOutcomes \cup {<<"ok", "throw">>}

\* the outcomes a call can meet: with no remote store there is no fetch
Met(o) == cfg.UPSTASH \/ \A i \in DOMAIN o : o[i] = "ok"

\* the operation op has been called at the time now and has left r; failed
\* tells whether a fetch it made did not succeed, and fb is what the call
\* leaves when no remote store is configured
Called(op, key, value, ttlSec, failed, r, fb) ==
  /\ mem' = r.mem
  /\ redis' = r.redis
  /\ calls' = Append(calls,
       [ op |-> op, key |-> key, value |-> value, ttlSec |-> ttlSec, at |-> now,
         failed |-> failed, raised |-> r.raised, n |-> r.n, changed |-> r.changed,
         rateHigh |-> FALSE,
         fb |-> [n |-> fb.n, changed |-> fb.changed] ])
  /\ UNCHANGED <<now, signKeyCfg, issued, last, cfg, ipqsCache, asnWatch, handled, flight>>

\* await kvIncr(key, ttlSec)
kvIncrCall(key, ttlSec, o) ==
  /\ Len(calls) < MaxCalls /\ Met(o)
  /\ Called("kvIncr", key, NoIp, ttlSec,
            cfg.UPSTASH /\ (o[1] # "ok" \/ (o[2] # "ok"
                                             /\ ~RedisLive(redis, key, now * SecPerTick))),
            kvIncrKv(mem, redis, cfg.UPSTASH, key, ttlSec, now * SecPerTick, o[1], o[2]),
            kvIncrKv(mem, redis, FALSE, key, ttlSec, now * SecPerTick, "ok", "ok"))

\* await incHoneypot(ip)
incHoneypotCall(ip, o) ==
  /\ Len(calls) < MaxCalls /\ Met(o)
  /\ Called("incHoneypot", Key("hp", ip, Absent, NoAsn, NoText), NoIp, HoneypotTtl,
            cfg.UPSTASH /\ (o[1] # "ok" \/ (o[2] # "ok"
                 /\ ~RedisLive(redis, Key("hp", ip, Absent, NoAsn, NoText), now * SecPerTick))),
            incHoneypotKv(mem, redis, cfg.UPSTASH, ip, HoneypotTtl, now * SecPerTick, o[1], o[2]),
            incHoneypotKv(mem, redis, FALSE, ip, HoneypotTtl, now * SecPerTick, "ok", "ok"))

\* await getHoneypotHits(ip)
getHoneypotHitsCall(ip, o) ==
  /\ Len(calls) < MaxCalls /\ Met(<<o>>)
  /\ Called("getHoneypotHits", Key("hp", ip, Absent, NoAsn, NoText), NoIp, 0,
            cfg.UPSTASH /\ o # "ok",
            getHoneypotHitsKv(mem, redis, cfg.UPSTASH, ip, now * SecPerTick, o),
            getHoneypotHitsKv(mem, redis, FALSE, ip, now * SecPerTick, "ok"))

\* await getAndSetBinding(key, value, ttlSec)
getAndSetBindingCall(key, value, ttlSec, o) ==
  /\ Len(calls) < MaxCalls /\ Met(o)
  /\ Called("getAndSetBinding", key, value, ttlSec,
            cfg.UPSTASH /\ (o[1] # "ok" \/ o[2] # "ok"),
            getAndSetBindingKv(mem, redis, cfg.UPSTASH, key, value, ttlSec,
                               now * SecPerTick, o[1], o[2]),
            getAndSetBindingKv(mem, redis, FALSE, key, value, ttlSec,
                               now * SecPerTick, "ok", "ok"))

\* await kvSetEx(key, value, ttlSec)
kvSetExCall(key, value, ttlSec, o) ==
  /\ Len(calls) < MaxCalls /\ Met(<<o>>)
  /\ Called("kvSetEx", key, NoIp, ttlSec, cfg.UPSTASH /\ o # "ok",
            kvSetExKv(mem, redis, cfg.UPSTASH, key, value, ttlSec, now * SecPerTick, o),
            kvSetExKv(mem, redis, FALSE, key, value, ttlSec, now * SecPerTick, "ok"))

\* with and without UPSTASH_REDIS_REST_URL and UPSTASH_REDIS_REST_TOKEN
StoreConfigs == {DefaultConfig, [DefaultConfig EXCEPT !.UPSTASH = TRUE]}

InitStore == \E c \in StoreConfigs : InitWith(c, ConfiguredKey)

NextStore ==
  \/ Tick
  \/ \E o \in IncrOutcomes : kvIncrCall(CounterKey, WindowTtl, o)
  \/ \E o \in IncrOutcomes : incHoneypotCall(IpHome, o)
  \/ \E o \in Outcomes : getHoneypotHitsCall(IpHome, o)
  \/ \E o \in BindOutcomes : getAndSetBindingCall(BindingKey, Cidr24(IpHome), WindowTtl, o)
  \/ \E o \in Outcomes : kvSetExCall(SessKey, "control", WindowTtl, o)

SpecStore == InitStore /\ [][NextStore]_vars


-----------------------------------------------------------------------------
(* Claims about the Counter Store *)

\* the call made last
LastCall == calls[Len(calls)]

\* the calls made before call j that returned
ReturnedBefore(j) == { i \in 1..(j - 1) : ~calls[i].raised }

\* whether ttlSec of call i has not elapsed when call j is made
WithinTtl(i, j) == calls[j].at * SecPerTick < calls[i].at * SecPerTick + calls[i].ttlSec

\* the entry of the key in store b, when the step from a has written it, has
\* the expiry of the window: the one it had in a when it was live there, and
\* ttlSec from the time t on when the window starts
WindowKept(a, b, key, live, t, ttlSec) ==
  (key \in DOMAIN b /\ (key \notin DOMAIN a \/ b[key] # a[key])) =>
    b[key].exp = (IF live THEN a[key].exp ELSE t + ttlSec)

\* C12: a counter's expiry is fixed by the first increment of a window: for
\* every key and every sequence of increment(key, ttl) calls, later
\* increments inside the window do not move the expiry, so the counter
\* expires ttl after its first increment, in the remote store and in the
\* in-process fallback (when no fetch of the call fails).
C12_ExpiryFixedByFirstIncrement ==
  [][ Len(calls') > Len(calls) => \A c \in {calls'[Len(calls')]} :
        (c.op \in {"kvIncr", "incHoneypot"} /\ ~c.failed) =>
          /\ WindowKept(mem, mem', c.key, MemHas(mem, c.key, now * SecPerTick),
                        now * SecPerTick, c.ttlSec)
          /\ WindowKept(redis, redis', c.key, RedisLive(redis, c.key, now * SecPerTick),
                        now * SecPerTick, c.ttlSec) ]_vars

\* C15: after one incHoneypot(ip) call has returned, every getHoneypotHits(ip)
\* made before the TTL elapses returns at least 1, in every store mode: no
\* remote store configured, remote store healthy, and remote store configured
\* but failing during the increment or the read.
C15_HoneypotHitsSeen ==
  \A j \in DOMAIN calls :
    ( /\ calls[j].op = "getHoneypotHits"
      /\ \E i \in ReturnedBefore(j) :
           calls[i].op = "incHoneypot" /\ calls[i].key = calls[j].key /\ WithinTtl(i, j) )
    => (~calls[j].raised /\ calls[j].n >= 1)

\* C17: for every key, value v and ttl: two consecutive
\* getAndSetBinding(key, v, ttl) calls with the same v, the second made
\* before the TTL elapses, report changed=false on the second call, in every
\* store mode (fallback, remote healthy, remote configured but failing).
C17_SameValueUnchanged ==
  \A j \in DOMAIN calls :
    ( /\ calls[j].op = "getAndSetBinding"
      /\ \E i \in ReturnedBefore(j) :
           /\ calls[i].op = "getAndSetBinding" /\ calls[i].key = calls[j].key
           /\ calls[i].value = calls[j].value /\ WithinTtl(i, j)
           /\ \A k \in (i + 1)..(j - 1) : calls[k].op # "getAndSetBinding" )
    => (~calls[j].raised /\ ~calls[j].changed)

\* C18: when a remote store is configured and a call to it fails (thrown
\* network error, timeout, or non-success response), each Counter Store
\* operation (increment, getAndSetBinding, setWithExpiry, honeypot read)
\* completes without raising and returns the result the in-process fallback
\* gives.
C18_FailureFallsBack ==
  \A j \in DOMAIN calls :
    calls[j].failed =>
      /\ ~calls[j].raised
      /\ calls[j].n = calls[j].fb.n /\ calls[j].changed = calls[j].fb.changed


-----------------------------------------------------------------------------
(* bumpCountersAndGetPenalty called request after request *)

\* a RATE_LIMIT_CONFIG with limits that three calls exceed
TightRateConfig == [windowSec |-> WindowTtl, perIp |-> 2, perFp |-> 2, perAsn |-> 2]

\* a second autonomous system
AsnOther == 64501

\* the outcomes of the three fetches of /incr of one call
BumpOutcomes == {<<"ok", "ok", "ok">>, <<"fail", "ok", "ok">>, <<"ok", "throw", "ok">>}

\* await bumpCountersAndGetPenalty({ ip, fp, asn, ...RATE_LIMIT_CONFIG })
bumpCall(ip, fp, asn, o) ==
  /\ Len(calls) < MaxCalls /\ Met(o)
  /\ \E r \in {bumpCountersAndGetPenaltyKv(mem, redis, cfg.UPSTASH, ip, fp, asn,
                                          cfg.RATE_LIMIT_CONFIG, now * SecPerTick, o)} :
       /\ mem' = r.mem
       /\ redis' = r.redis
       /\ calls' = Append(calls,
            [ op |-> "bump", key |-> Key("rate", ip, fp, asn, NoText), at |-> now,
              failed |-> cfg.UPSTASH /\ o # <<"ok", "ok", "ok">>,
              raised |-> r.raised, n |-> r.count, rateHigh |-> r.rateHigh ])
  /\ UNCHANGED <<now, signKeyCfg, issued, last, cfg, ipqsCache, asnWatch, handled, flight>>

\* the address, fingerprint and ASN of the requests: any two of them share
\* exactly one of the three
BumpRequests ==
  { [ip |-> IpHome, fp |-> "nofp", asn |-> AsnHome],
    [ip |-> IpHome, fp |-> "fp-ascii-0123456789", asn |-> AsnOther],
    [ip |-> IpOther, fp |-> "nofp", asn |-> AsnOther] }

RateConfigs ==
  { [DefaultConfig EXCEPT !.RATE_LIMIT_CONFIG = TightRateConfig, !.UPSTASH = on] :
      on \in BOOLEAN }

InitRate == \E c \in RateConfigs : InitWith(c, ConfiguredKey)

NextRate ==
  \/ Tick
  \/ \E q \in BumpRequests, o \in BumpOutcomes : bumpCall(q.ip, q.fp, q.asn, o)

SpecRate == InitRate /\ [][NextRate]_vars

\* how many of the calls 1..j carry the same value as call j under sel
SameUpTo(j, sel(_)) == Cardinality({ i \in 1..j : sel(calls[i].key) = sel(calls[j].key) })

IpOfKey(k) == k.ip

FpOfKey(k) == k.fp

AsnOfKey(k) == k.asn

\* the calls 1..j all succeeded at the store and lie within windowSec of the
\* first
OneWindow(j) ==
  /\ \A i \in 1..j : calls[i].op = "bump" /\ ~calls[i].failed
  /\ calls[j].at * SecPerTick < calls[1].at * SecPerTick + cfg.RATE_LIMIT_CONFIG.windowSec

\* C13: for bumpAndPenalize with a per-key limit L: after exactly L calls for
\* the same key within windowSec (other keys below their limits) rateHigh is
\* false, and on the (L+1)-th call within the window rateHigh is true; in
\* general rateHigh is true exactly when at least one of the address,
\* fingerprint or ASN counts exceeds its own limit.
C13_RateHighAboveLimit ==
  \A j \in DOMAIN calls :
    OneWindow(j) =>
      ( calls[j].rateHigh <=>
          \/ SameUpTo(j, IpOfKey) > cfg.RATE_LIMIT_CONFIG.perIp
          \/ SameUpTo(j, FpOfKey) > cfg.RATE_LIMIT_CONFIG.perFp
          \/ SameUpTo(j, AsnOfKey) > cfg.RATE_LIMIT_CONFIG.perAsn )

\* the call after the limit of the address alone: rateHigh after none before
C13_Witness ==
  /\ Len(calls) = 3 /\ OneWindow(3) /\ calls[3].at > calls[1].at
  /\ SameUpTo(3, IpOfKey) = cfg.RATE_LIMIT_CONFIG.perIp + 1
  /\ SameUpTo(3, FpOfKey) = 2 /\ SameUpTo(3, AsnOfKey) = 2
  /\ calls[3].rateHigh /\ ~calls[2].rateHigh /\ ~calls[1].rateHigh


-----------------------------------------------------------------------------
(* The interval analysis of bumpCountersAndGetPenalty, arrival after arrival *)

\* milliseconds in one unit of the arrival times of the analysis
StepMs == 50

\* the gaps between two arrivals, in units of StepMs: 0, 150, 200, 500, 550,
\* 600, 4000 and 6000 ms
Gaps == {0, 3, 4, 10, 11, 12, 80, 120}

\* the arrival times recorded by the first j calls
TimesUpTo(j) == [i \in 1..j |-> calls[i].at]

\* e.times.push(now) d units after the arrival before, and the flags computed
\* from the history
arrival(d) ==
  /\ Len(calls) < MaxArrivals
  /\ \E at \in {(IF calls = <<>> THEN 0 ELSE calls[Len(calls)].at) + d} :
       \E bh \in {Behavior(LastN(Append(TimesUpTo(Len(calls)), at), 10), StepMs)} :
         calls' = Append(calls, [ op |-> "arrival", at |-> at,
                                  fast |-> bh.fast, uniform |-> bh.uniform ])
  /\ UNCHANGED <<now, signKeyCfg, issued, last, cfg, mem, ipqsCache, asnWatch, handled,
                 redis, flight>>

InitBehavior == InitWith(DefaultConfig, ConfiguredKey)

NextBehavior == \E d \in Gaps : arrival(d)

SpecBehavior == InitBehavior /\ [][NextBehavior]_vars

\* the intervals between the first j arrivals
IntervalsUpTo(j) == [i \in 1..(j - 1) |-> calls[i + 1].at - calls[i].at]

\* mean < 600 ms for the intervals iv
MeanBelowFloor(iv) == SumSeq(iv) * StepMs < 600 * Len(iv)

\* stddev / mean < 0.10 for the intervals iv of mean above 0: 100 times the
\* sum of the squared deviations from the mean is below Len(iv) times the
\* squared mean, every term multiplied by the square of Len(iv)
CvBelowFloor(iv) ==
  LET n == Len(iv)
      dev(sum) == [i \in 1..n |-> (n * iv[i] - sum) * (n * iv[i] - sum)]
      below(sum) == 100 * SumSeq(dev(sum)) < n * sum * sum
  IN below(SumSeq(iv))

\* C14: for every recorded timestamp history of one (address, fingerprint)
\* key with at least two intervals, fast is true exactly when the mean of the
\* consecutive inter-arrival intervals is below 600 ms, and uniform is true
\* exactly when at least 4 intervals are present and stddev/mean is below
\* 0.10 (a mean of 0 counting as a ratio of 0); with fewer than two
\* intervals both are false. Five timestamps spaced exactly 500 ms apart
\* give uniform=true and fast=true; intervals [200,4000,150,6000] give
\* uniform=false.
C14_FlagsFromTwoIntervals ==
  \A j \in DOMAIN calls :
    \E iv \in {IntervalsUpTo(j)} :
      /\ IF Len(iv) < 2 THEN ~calls[j].fast /\ ~calls[j].uniform
         ELSE /\ calls[j].fast <=> MeanBelowFloor(iv)
              /\ calls[j].uniform <=>
                   (Len(iv) >= 4 /\ (SumSeq(iv) = 0 \/ CvBelowFloor(iv)))
      /\ iv = <<10, 10, 10, 10>> => (calls[j].uniform /\ calls[j].fast)
      /\ iv = <<4, 80, 3, 120>> => ~calls[j].uniform

\* five arrivals 500 ms apart have been recorded, fast and uniform
C14_Witness ==
  /\ Len(calls) = 5 /\ IntervalsUpTo(5) = <<10, 10, 10, 10>>
  /\ calls[5].fast /\ calls[5].uniform /\ calls[3].fast /\ ~calls[2].fast

\* C14 as stated: for every recorded timestamp history, fast is true exactly
\* when the mean of the consecutive inter-arrival intervals is below 600 ms,
\* and uniform exactly when at least 4 intervals are present and
\* stddev/mean is below 0.10.
C14_FlagsFromIntervals ==
  \A j \in DOMAIN calls :
    \E iv \in {IntervalsUpTo(j)} :
      Len(iv) >= 1 =>
        /\ calls[j].fast <=> MeanBelowFloor(iv)
        /\ calls[j].uniform <=> (Len(iv) >= 4 /\ (SumSeq(iv) = 0 \/ CvBelowFloor(iv)))


-----------------------------------------------------------------------------
(* The weighted combination of isBot for pairs of requests that differ in   *)
(* the honeypot hits of their address alone                                 *)

\* the signals of a request: every combination of the rules that add to the
\* score and of the cookies that lower it, no reputation data, no behaviour
\* hints
SignalSets ==
  { [ uaBlocked |-> ua, ipBlk |-> ipb, asnBlk |-> asnb, ipUntrusted |-> unt,
      tlsPresent |-> tls, asnWatched |-> FALSE, jsValid |-> js, hpCount |-> 0,
      ipqs |-> NoIpqs, ptrBot |-> ptr, rateHigh |-> rate, uniform |-> FALSE,
      fast |-> FALSE, fpOk |-> fpok, activityOk |-> act ] :
      ua \in BOOLEAN, ipb \in BOOLEAN, asnb \in BOOLEAN, unt \in BOOLEAN,
      tls \in BOOLEAN, js \in BOOLEAN, ptr \in BOOLEAN, rate \in BOOLEAN,
      fpok \in BOOLEAN, act \in BOOLEAN }

\* WEIGHT_TABLE: missing, and with a lower weight of the honeypot hits
WeightTables == {<<>>, [k \in {"hp_hit"} |-> 2500]}

\* the pair of requests has reached the weighted combination: p0 for the
\* address without hits, p for the address with the hits
scorePair ==
  /\ last.op = "signals"
  /\ last' = [ op |-> "probability", s |-> last.s, hits |-> last.hits,
               p0 |-> Probability(MergeWeights(cfg.WEIGHT_TABLE), last.s),
               p |-> Probability(MergeWeights(cfg.WEIGHT_TABLE),
                                 [last.s EXCEPT !.hpCount = last.hits]) ]
  /\ UNCHANGED <<now, signKeyCfg, issued, cfg, mem, ipqsCache, asnWatch, handled, storeVars>>

InitPair ==
  /\ now = 0 /\ signKeyCfg = ConfiguredKey /\ issued = {}
  /\ \E w \in WeightTables : cfg = [DefaultConfig EXCEPT !.WEIGHT_TABLE = w]
  /\ \E s \in SignalSets, hits \in {1, 3} : last = [op |-> "signals", s |-> s, hits |-> hits]
  /\ mem = <<>> /\ ipqsCache = <<>> /\ asnWatch = <<>>
  /\ handled = [pages |-> 0, api |-> 0]
  /\ redis = <<>> /\ calls = <<>> /\ flight = NoFlight

NextPair == scorePair

SpecPair == InitPair /\ [][NextPair]_vars

-----------------------------------------------------------------------------
(* One page request followed from await to await: the remote collaborators  *)
(* answer, or do not, and the calls that carry an AbortController are       *)
(* abandoned when their timer fires                                         *)

\* the awaits of middleware and isBot that may fetch, in their order: the
\* resolver for the engine, /get of the honeypot hits, the reputation
\* service, the resolver for the scorer, /incr of the counters, /get and
\* /setex of the binding; then the decision
Awaits == <<"ptr1", "hp", "ipqs", "ptr2", "rate", "bind", "respond">>

\* the await after pc
AwaitAfter(pc) == Awaits[(CHOOSE i \in DOMAIN Awaits : Awaits[i] = pc) + 1]

\* whether the await of the request in flight f makes a fetch
Fetches(f) ==
  LET ip == getIP(f.req) IN
  CASE f.pc \in {"ptr1", "ptr2"} -> ip # NoIp /\ ~IsPrivateIp(ip)
    [] f.pc = "ipqs" -> /\ ip # NoIp /\ cfg.IPQS_API_KEY
                        /\ ~(ip \in DOMAIN ipqsCache /\ now - ipqsCache[ip].ts < IPQS_TTL)
    [] f.pc \in {"hp", "rate"} -> cfg.UPSTASH
    [] f.pc = "bind" -> cfg.UPSTASH /\ ~IsEmpty(f.req.fp) /\ ipToCidr24(ip) # NoIp
    [] OTHER -> FALSE

\* the calls that are abandoned at a timeout: reversePTRMatches (500 ms) and
\* queryIPQS (1200 ms) pass the signal of an AbortController to fetch;
\* kvFetch passes none
HasTimeout(pc) == pc \in {"ptr1", "ipqs", "ptr2"}

\* an answer of the reputation service with a fraud score
IpqsRisky == [NoIpqs EXCEPT !.ok = TRUE, !.fraud_score = 90, !.proxy = TRUE]

\* the fetches of the Counter Store made at the await pc end as x
StoreOutcome(o, pc, x) ==
  [i \in DOMAIN o |->
     IF \/ pc = "hp" /\ i = 1
        \/ pc = "rate" /\ i \in {2, 3, 4}
        \/ pc = "bind" /\ i \in {5, 6}
     THEN x ELSE o[i]]

\* middleware(req) starts: the rules before the reverse lookup decide, or
\* the first await is reached
Arrive(req) ==
  /\ flight.pc \in {"idle", "decided", "failed"}
  /\ handled.pages < MaxPages
  /\ flight' = [ pc |-> IF EarlyDecision(req, cfg, FALSE).verdict = "score"
                        THEN "ptr1" ELSE "respond",
                 req |-> req, ptr1 |-> FALSE, ptr2 |-> FALSE, ipqs |-> NoIpqs, o |-> AllOk ]
  /\ UNCHANGED <<now, signKeyCfg, issued, last, cfg, mem, ipqsCache, asnWatch, handled,
                 redis, calls>>

\* the flight with its other variables left alone
Flight(f) ==
  /\ flight' = f
  /\ UNCHANGED <<now, signKeyCfg, issued, last, cfg, mem, ipqsCache, asnWatch, handled,
                 redis, calls>>

\* the resolver answers: a crawler's name, or another
PtrAnswers(match) ==
  /\ flight.pc \in {"ptr1", "ptr2"} /\ Fetches(flight)
  /\ Flight(IF flight.pc = "ptr1"
            THEN [flight EXCEPT !.ptr1 = match,
                                !.pc = IF match THEN "respond" ELSE AwaitAfter("ptr1")]
            ELSE [flight EXCEPT !.ptr2 = match, !.pc = AwaitAfter("ptr2")])

\* the reputation service answers
IpqsAnswers(resp) ==
  /\ flight.pc = "ipqs" /\ Fetches(flight)
  /\ Flight([flight EXCEPT !.ipqs = resp, !.pc = AwaitAfter("ipqs")])

\* the remote store answers the fetches of the await, or fetch rejects: the
\* exception leaves isBot and middleware
StoreAnswers(x) ==
  /\ flight.pc \in {"hp", "rate", "bind"} /\ Fetches(flight)
  /\ Flight([flight EXCEPT !.o = StoreOutcome(flight.o, flight.pc, x),
                           !.pc = IF x = "throw" THEN "respond"
                                  ELSE AwaitAfter(flight.pc)])

\* ctl.abort('timeout'): the fetch rejects, the catch returns false or null
Abandon ==
  /\ HasTimeout(flight.pc) /\ Fetches(flight)
  /\ Flight([flight EXCEPT !.pc = AwaitAfter(flight.pc)])

\* an await that makes no fetch returns
Skip ==
  /\ flight.pc \in {"ptr1", "hp", "ipqs", "ptr2", "rate", "bind"} /\ ~Fetches(flight)
  /\ Flight([flight EXCEPT !.pc = AwaitAfter(flight.pc)])

\* middleware returns its response, or ends with the exception of isBot
Decide ==
  /\ flight.pc = "respond"
  /\ Respond(flight.req, flight.ipqs, flight.ptr1, flight.ptr2, flight.o)
  /\ flight' = [flight EXCEPT !.pc = IF last'.out.verdict = "error" THEN "failed"
                                     ELSE "decided"]
  /\ UNCHANGED calls

\* with and without a remote store and a key of the reputation service; the
\* collaborators answer with success, with a non-success status, or not at
\* all
LiveConfigs ==
  { [DefaultConfig EXCEPT !.UPSTASH = u, !.IPQS_API_KEY = k] : u \in BOOLEAN, k \in BOOLEAN }

LiveRequests == ScoreRequests \cup {[PlainView EXCEPT !.ua = UaCurl]}

InitLive == \E c \in LiveConfigs : InitWith(c, ConfiguredKey)

NextLive ==
  \/ \E req \in LiveRequests : Arrive(req)
  \/ \E match \in BOOLEAN : PtrAnswers(match)
  \/ \E resp \in {NoIpqs, IpqsRisky} : IpqsAnswers(resp)
  \/ \E x \in {"ok", "fail"} : StoreAnswers(x)
  \/ Abandon
  \/ Skip
  \/ Decide

\* the timers of the AbortControllers fire and the awaits that fetch nothing
\* return; no collaborator is bound to answer
SpecLive == InitLive /\ [][NextLive]_vars /\ WF_vars(Abandon) /\ WF_vars(Skip)

\* the request in flight has every await behind it and no exception: its
\* decision is made without another remote call, or has been made
Settled ==
  \/ flight.pc = "decided"
  \/ flight.pc = "respond" /\ \A i \in DOMAIN flight.o : flight.o[i] # "throw"

\* C19: every request eventually receives a decision even when a remote
\* collaborator (counter store, reputation service, reverse-DNS resolver)
\* never responds: each remote call is abandoned at its own timeout, is
\* attempted at most once, and the decision then proceeds with that signal
\* absent.
C19_EveryRequestDecided == (flight.pc # "idle") ~> Settled

-----------------------------------------------------------------------------
(* The weighted combination of isBot under weight tables of every sign      *)

\* WEIGHT_TABLE: missing; every weight negative; every weight large; the
\* defaults with their signs flipped; and two overrides of opposite sign
WeighTables ==
  { <<>>,
    [k \in DOMAIN DEFAULT_WEIGHTS |-> -3000],
    [k \in DOMAIN DEFAULT_WEIGHTS |-> 20000],
    [k \in DOMAIN DEFAULT_WEIGHTS |-> 0 - DEFAULT_WEIGHTS[k]],
    [k \in {"tls_present", "hp_hit"} |-> IF k = "hp_hit" THEN 30000 ELSE -9000] }

\* the signals of a request: those of SignalSets, with and without
\* reputation data, honeypot hits and a watched ASN
WeighSignals ==
  { [s EXCEPT !.ipqs = q, !.hpCount = h, !.asnWatched = aw] :
      s \in SignalSets, q \in {NoIpqs, IpqsRisky}, h \in {0, 2}, aw \in BOOLEAN }

\* the request has reached the weighted combination: the sum and the score
weigh ==
  /\ last.op = "signals"
  /\ last' = [ op |-> "weighed", s |-> last.s,
               sum |-> WeightedSum(MergeWeights(cfg.WEIGHT_TABLE), last.s),
               p |-> Probability(MergeWeights(cfg.WEIGHT_TABLE), last.s) ]
  /\ UNCHANGED <<now, signKeyCfg, issued, cfg, mem, ipqsCache, asnWatch, handled, storeVars>>

InitWeigh ==
  /\ now = 0 /\ signKeyCfg = ConfiguredKey /\ issued = {}
  /\ \E w \in WeighTables : cfg = [DefaultConfig EXCEPT !.WEIGHT_TABLE = w]
  /\ \E s \in WeighSignals : last = [op |-> "signals", s |-> s]
  /\ mem = <<>> /\ ipqsCache = <<>> /\ asnWatch = <<>>
  /\ handled = [pages |-> 0, api |-> 0]
  /\ redis = <<>> /\ calls = <<>> /\ flight = NoFlight

NextWeigh == weigh

SpecWeigh == InitWeigh /\ [][NextWeigh]_vars

\* C21: for every combination of fired signals and every numeric weight
\* table (defaults or overrides, positive or negative weights), the
\* probability returned by the Risk Scorer lies in [0,1].
C21_ProbabilityInUnitInterval ==
  last.op = "weighed" => 0 <= last.p /\ last.p <= 10000

\* negative weights have taken the sum below 0 and the score is 0
C21_Witness ==
  /\ last.op = "weighed" /\ last.sum < 0 /\ last.p = 0
  /\ last.s.uaBlocked /\ cfg.WEIGHT_TABLE # <<>>

-----------------------------------------------------------------------------
(* Two assessments of the Risk Scorer side by side: their reasons and their *)
(* scores                                                                   *)

\* makeReq({ 'user-agent': 'Mozilla/5.0 Chrome/120 Safari', 'accept':
\* 'text/html' }, {}, '8.8.8.8') of the test of isBot: the two headers,
\* x-forwarded-for with the address, and no cookie
GoodUaRequest ==
  [ BareRequest(PathRoot) EXCEPT
      !.ua = UaChrome \o <<32, 83, 97, 102, 97, 114, 105>>,
      !.accept = TextHtml, !.xff = << <<8, 8, 8, 8>> >> ]

\* page views of / by a browser: with and without text/html in the accept
\* header, through a generic proxy and through Vercel, with and without a
\* fingerprint cookie and the activity cookies
AuditRequests ==
  { PageView(PathRoot, UaChrome, accept, src, "none", NoText, NoText, fp, activity) :
      accept \in {AcceptHtml, AcceptAny}, src \in {"xff", "vercel"},
      fp \in {Absent, "fp-ascii-0123456789"}, activity \in {NoText, One} }
  \cup {GoodUaRequest}

\* what isBot returns to its caller
Assessment(adv) == [bot |-> adv.bot, score |-> adv.score, reasons |-> adv.reasons]

\* isBot(request) for the first request of the pair
assessFirst ==
  /\ last.op = "pair"
  /\ \E adv \in {isBot(last.a, cfg, mem, ipqsCache, asnWatch, now, NoIpqs, FALSE)} :
       /\ last' = [op |-> "first", a |-> last.a, b |-> last.b, ra |-> Assessment(adv)]
       /\ mem' = adv.mem
       /\ ipqsCache' = adv.cache
  /\ UNCHANGED <<now, signKeyCfg, issued, cfg, asnWatch, handled, storeVars>>

\* isBot(request) for the second request of the pair
assessSecond ==
  /\ last.op = "first"
  /\ \E adv \in {isBot(last.b, cfg, mem, ipqsCache, asnWatch, now, NoIpqs, FALSE)} :
       /\ last' = [ op |-> "assessed", a |-> last.a, b |-> last.b, ra |-> last.ra,
                    rb |-> Assessment(adv) ]
       /\ mem' = adv.mem
       /\ ipqsCache' = adv.cache
  /\ UNCHANGED <<now, signKeyCfg, issued, cfg, asnWatch, handled, storeVars>>

InitAudit ==
  /\ now = 0 /\ signKeyCfg = ConfiguredKey /\ issued = {}
  /\ cfg = DefaultConfig
  /\ \E a \in AuditRequests, b \in AuditRequests : last = [op |-> "pair", a |-> a, b |-> b]
  /\ mem = <<>> /\ ipqsCache = <<>> /\ asnWatch = <<>>
  /\ handled = [pages |-> 0, api |-> 0]
  /\ redis = <<>> /\ calls = <<>> /\ flight = NoFlight

NextAudit == assessFirst \/ assessSecond

SpecAudit == InitAudit /\ [][NextAudit]_vars

\* C22: the reasons list of the Risk Scorer is a complete audit of the
\* score: a signal changes the probability if and only if its tag is in the
\* reasons, so two assessments with the same reasons under the same weight
\* table have the same probability.
C22_ReasonsDetermineScore ==
  (last.op = "assessed" /\ last.ra.reasons = last.rb.reasons) =>
    last.ra.score = last.rb.score

-----------------------------------------------------------------------------
(* The score rules under an A/B experiment whose variants have weight       *)
(* tables of their own                                                      *)

\* an experiment that assigns every request to variant A, or none, with and
\* without a weight table for A, for control and for every variant
VariantConfigs ==
  { [ DefaultConfig EXCEPT !.EXPERIMENT_MODE = "ab", !.EXPERIMENT_SPLIT_A = a,
                           !.WEIGHT_TABLE_V.A = wa, !.WEIGHT_TABLE_V.control = wc,
                           !.WEIGHT_TABLE = wg ] :
      a \in {0, 100},
      wa \in {<<>>, [k \in {"ip_untrusted"} |-> 0]},
      wc \in {<<>>, [k \in {"fp_ok"} |-> -2000]},
      wg \in {<<>>, [k \in {"ip_untrusted", "activity_ok"} |-> IF k = "ip_untrusted" THEN 3000 ELSE -500]} }

InitVariant == \E c \in VariantConfigs : InitWith(c, ConfiguredKey)

NextVariant ==
  \/ Tick
  \/ \E req \in ScoreRequests : Middleware(req, NoIpqs, FALSE, FALSE)

SpecVariant == InitVariant /\ [][NextVariant]_vars

\* the overrides in effect for the request, signal by signal: the one of its
\* experiment variant when that table defines the signal, else the one of
\* the global table
WeightsInEffect(req, c) ==
  LET wv == c.WEIGHT_TABLE_V[getExperimentConfig(ExperimentSeed(req), c).variant]
      wg == c.WEIGHT_TABLE
  IN [ k \in DOMAIN wv \cup DOMAIN wg |-> IF k \in DOMAIN wv THEN wv[k] ELSE wg[k] ]

\* C23: for every signal, the weight the Risk Scorer applies is the override
\* of the request's experiment variant when that variant defines one, else
\* the externally configured override, else the default: a request assigned
\* to a variant with a weight table is scored with that variant's weights.
C23_VariantWeightsApplied ==
  [][ (handled'.pages > handled.pages /\ last'.scored) =>
        last'.p = isBot(last'.req, [cfg EXCEPT !.WEIGHT_TABLE = WeightsInEffect(last'.req, cfg)],
                        mem, ipqsCache, asnWatch, now, NoIpqs, FALSE).score ]_vars

-----------------------------------------------------------------------------
(* The Decision Engine and its reports to /api/logs                          *)

\* how edgeGet('LOGS_API_TOKEN') ends: with a token, with null, or with an
\* exception of the configuration store
EdgeOutcomes == {"value", "null", "throw"}

\* how the fetch of /api/logs ends: accepted, refused, rejected, or never
\* answered
LogOutcomes == {"ok", "fail", "throw", "hang"}

\* the configurations of the engine: active, and without an offer URL
LogConfigs == {DefaultConfig, [DefaultConfig EXCEPT !.offerUrl = FALSE]}

\* the requests whose decisions are reported: those of the rules before the
\* score and those of the score rules
LogRequests == EngineRequests \cup ScoreRequests

\* middleware(req) with its report to /api/logs
LoggedMiddleware(req, ptr1, edge, sub) ==
  /\ RespondLogging(req, NoIpqs, ptr1, FALSE, AllOk, edge, sub)
  /\ UNCHANGED <<calls, flight>>

InitLog == \E c \in LogConfigs : InitWith(c, ConfiguredKey)

NextLog ==
  \E req \in LogRequests : \E ptr1 \in BOOLEAN :
    \E edge \in EdgeOutcomes : \E sub \in LogOutcomes :
      LoggedMiddleware(req, ptr1, edge, sub)

SpecLog == InitLog /\ [][NextLog]_vars

\* the terminal decisions of the engine
TerminalVerdicts == {"bypass", "offer", "safe", "challenge"}

\* C24: every terminal decision of the Decision Engine (bypass, trusted
\* pass, hard safe, challenge, pass) on every path through the rules submits
\* exactly one report, carrying that decision and its reasons, to the logging
\* collaborator before the response is returned.
C24_OneReportPerDecision ==
  (last.op = "middleware" /\ last.out.verdict \in TerminalVerdicts) =>
    last.reports = <<Report(last.out)>>

\* the decision of the rules for the request in the current state, no report
\* being made: the verdict, the reasons and the score
DecisionWithoutLog(req, ptr1) ==
  LET early == EarlyDecision(req, cfg, ptr1)
      adv == isBot(req, cfg, mem, ipqsCache, asnWatch, now, NoIpqs, FALSE)
  IN Report(IF early.verdict # "score" THEN early
            ELSE ScoreDecision(req, cfg, adv, NoText))

\* C25: the decision for a request is the same whether the log submission
\* succeeds, fails, throws or never completes: every run of the engine
\* returns the decision and the reasons that the rules give for the request
\* in the state it met, whatever the logging collaborator does, and a
\* logging failure never blocks or fails the decision.
C25_DecisionIgnoresLogging ==
  [][ handled'.pages > handled.pages =>
        /\ Report(last'.out) = DecisionWithoutLog(last'.req, last'.ptr1)
        /\ last'.out.verdict # "error" ]_vars

\* a challenge has been served although the submission of its report is
\* never answered
C25_Witness ==
  /\ last.op = "middleware" /\ last.log[2] = "hang" /\ last.log[1] = "value"
  /\ last.out.verdict = "challenge" /\ Len(last.reports) = 1

-----------------------------------------------------------------------------
(* The honeytrap, the watchlist of ASNs and the Risk Scorer over the two     *)
(* hours of a watch                                                         *)

\* the minutes that pass between two requests
WatchStep == 50

\* the number of such intervals
MaxSteps == 4

\* no honeytrap was visited before the assessment
NoHit == [asn |-> NoAsn, at |-> -1, raised |-> FALSE]

\* WatchStep minutes pass
Elapse ==
  /\ now + WatchStep <= MaxSteps * WatchStep
  /\ now' = now + WatchStep
  /\ UNCHANGED <<signKeyCfg, issued, last, cfg, mem, ipqsCache, asnWatch, handled, storeVars>>

\* the visitors: through a generic proxy (no ASN), through Vercel and
\* Cloudflare from one network, through Vercel from another
WatchRequests ==
  { PageView(PathRoot, UaChrome, AcceptHtml, src, "none", NoText, NoText, Absent, NoText) :
      src \in {"xff", "vercel", "cloudflare", "vercelCloud"} }

\* isBot(request): the assessment, the one the same state gives with an empty
\* watchlist (base), and the visit to the honeytrap that came before (hit)
Assess(req) ==
  /\ handled.pages < MaxPages
  /\ handled' = [handled EXCEPT !.pages = @ + 1]
  /\ \E adv \in {isBotKv(req, cfg, mem, redis, ipqsCache, asnWatch, now, NoIpqs, FALSE, AllOk)} :
     \E plain \in {isBotKv(req, cfg, mem, redis, ipqsCache, <<>>, now, NoIpqs, FALSE, AllOk)} :
       /\ last' = [ op |-> "assessed", req |-> req, at |-> now,
                    hit |-> IF last.op = "honeytrap"
                            THEN [asn |-> getASN(last.req), at |-> last.at,
                                  raised |-> last.raised]
                            ELSE NoHit,
                    watched |-> isASNWatched(asnWatch, getASN(req), now * SecPerTick),
                    score |-> adv.score, base |-> plain.score, reasons |-> adv.reasons ]
       /\ mem' = adv.mem
       /\ redis' = adv.redis
       /\ ipqsCache' = adv.cache
  /\ UNCHANGED <<now, signKeyCfg, issued, cfg, asnWatch, calls, flight>>

\* with no store configured, and with a store
WatchConfigs == {DefaultConfig, [DefaultConfig EXCEPT !.UPSTASH = TRUE]}

InitWatch == \E c \in WatchConfigs : InitWith(c, ConfiguredKey)

NextWatch ==
  \/ Elapse
  \/ \E req \in WatchRequests : \E o \in IncrOutcomes : Met(o) /\ HoneytrapKv(req, o)
  \/ \E req \in WatchRequests : Assess(req)

SpecWatch == InitWatch /\ [][NextWatch]_vars

\* the reasons carry the tag
Tagged(reasons, tag) == \E i \in DOMAIN reasons : reasons[i].tag = tag

\* the assessed request comes from the ASN of the visit to the honeytrap
FromHitAsn == last.hit.asn # NoAsn /\ getASN(last.req) = last.hit.asn

\* C26: after a honeypot hit from an address whose ASN a is resolvable,
\* isASNWatched(a) is true for every request until the watch TTL elapses and
\* false afterwards; while it is true the Risk Scorer tags every request
\* from ASN a asn:watch and gives it a probability not below the one it has
\* without the watch. A honeypot hit with no resolvable ASN watches nothing.
C26_WatchedAfterHit ==
  (last.op = "assessed" /\ last.hit # NoHit) =>
    /\ (FromHitAsn /\ last.at * SecPerTick < last.hit.at * SecPerTick + WatchTtl) =>
         /\ last.watched /\ Tagged(last.reasons, "asn:watch")
         /\ last.score >= last.base
    /\ (FromHitAsn /\ last.at * SecPerTick > last.hit.at * SecPerTick + WatchTtl) =>
         ~last.watched /\ ~Tagged(last.reasons, "asn:watch")
    /\ last.hit.asn = NoAsn => asnWatch = <<>> /\ ~last.watched

-----------------------------------------------------------------------------
(* The verification route and its answers to tokens that fail a check       *)

\* the answer of the verification route to a token it does not accept
Refusal == Response(400, FALSE, NoText, NoText)

\* C27: the verification endpoint answers every TokenInvalid case (malformed
\* token, MAC mismatch, expired token, network-prefix or provider mismatch)
\* with the same response (status 400, body {ok:false}, no cookie) and
\* leaves the Counter Store unchanged, so the response does not reveal which
\* check failed.
C27_InvalidTokensAnsweredAlike ==
  [][ ( /\ handled'.api > handled.api /\ last'.op = "verify-challenge"
        /\ last'.req.method = "POST"
        /\ ~TokenChecksPass(last'.req, now) ) =>
        last'.res = Refusal /\ mem' = mem /\ redis' = redis ]_vars

\* a challenge token of the engine has come back after its expiry and has
\* been refused
C27_Witness ==
  /\ last.op = "verify-challenge" /\ last.res = Refusal
  /\ \E r \in issued :
       /\ r.token = last.req.body.token
       /\ ExpIsNumber(Parse(r.text).exp) /\ Parse(r.text).exp < last.at
       /\ Parse(r.text).ip_cidr = ipToCidr24(getIp(last.req))

-----------------------------------------------------------------------------
(* The verification route with the remote store: the session cookie and the *)
(* persisted binding                                                        *)

\* the outcomes of the fetches of the two kvSetEx calls
SetExOutcomes ==
  {<<"ok", "ok">>, <<"fail", "ok">>, <<"throw", "ok">>, <<"ok", "throw">>}

\* the posts to the verification route: every issued token with the solution
\* the script finds, with another solution, and a forged token
SessionSubmissions ==
  UNION { LET n == SolveFrom(tok, 0) IN
          { Submission(src, tok, sol, fp) :
              src \in {"home", "vercel", "cloudflare"},
              sol \in {Digits(n), Digits(n + 1)},
              fp \in {Absent, "fp-ascii-0123456789"} } : tok \in IssuedTokens }
  \cup { Submission("home", Forged, NoText, Absent) }

InitSession == \E c \in WatchConfigs : InitWith(c, ConfiguredKey)

NextSession ==
  \/ Tick
  \/ \E req \in ChallengedViews : Middleware(req, NoIpqs, FALSE, FALSE)
  \/ \E req \in SessionSubmissions : \E o \in SetExOutcomes :
       Met(o) /\ VerifyChallengeKv(req, o)

SpecSession == InitSession /\ [][NextSession]_vars

\* C28: every response of the verification endpoint that carries the
\* human_signed session cookie has ok=true, and every response with ok=false
\* carries no session cookie, including when persisting the session binding
\* to the Counter Store fails after the cookie has been prepared.
C28_CookieOnlyWithOk ==
  last.op = "verify-challenge" => (last.res.cookie # NoText <=> last.res.ok)

\* C29: every session token issued by the verification endpoint carries a
\* numeric exp field equal to its issue time plus its TTL (1800 s, the
\* Max-Age of the cookie), so that verifySignedPayload accepts it before
\* that instant and rejects it after.
C29_SessionExpiryIsIssuePlusTtl ==
  (last.op = "verify-challenge" /\ last.res.cookie # NoText) =>
    \A k \in getSignKey(signKeyCfg) : \A d \in {Parse(VerifiedText(last.res.cookie, k).text)} :
      ExpIsNumber(d.exp) /\ d.exp = last.at + SessionTtl

-----------------------------------------------------------------------------
(* The first assessment of a plain browser request                          *)

\* a request with a browser user-agent that is not blocked, text/html in its
\* accept header, an address that is not blacklisted and comes through
\* x-forwarded-for, and no cookie
GoodBrowserView(req) ==
  /\ ~isBlockedUserAgent(req.ua) /\ Includes(Lower(req.accept), TextHtml)
  /\ getProviderContext(req).ipSource = "header" /\ getIP(req) # NoIp
  /\ ~isBlacklistedIP(getIP(req))
  /\ req.human_signed = NoText /\ req.ban = NoText /\ req.fp = Absent
  /\ req.act = NoText /\ req.hc = NoText

\* C30: under default weights and thresholds, a request with a browser
\* user-agent that is not blocked, a text/html accept header, an address that
\* is not blacklisted and is supplied through x-forwarded-for, no cookies
\* and no prior counter history gets from isBot a score in [0, 0.65), that
\* is strictly below the strict threshold.
C30_GoodBrowserBelowStrict ==
  (last.op \in {"first", "assessed"} /\ GoodBrowserView(last.a)) =>
    0 <= last.ra.score /\ last.ra.score < DefaultStrict

-----------------------------------------------------------------------------
(* Concurrent calls of the Counter Store: a call runs from one await to the *)
(* next without interruption, and the calls suspended at an await resume in *)
(* any order                                                                *)

\* the most calls in flight at once
MaxConcurrent == 3

\* the awaits of a call, with a remote store configured (on) or not, and an
\* await between memGet and MEM.set of the fallback that the source does not
\* have
AwaitsWithRead(op, on) ==
  CASE op = "kvIncr" -> IF on THEN <<"getKV", "incr", "expire">> ELSE <<"getKV", "memGet">>
    [] op = "getAndSetBinding" ->
         IF on THEN <<"getKV", "get", "setex">> ELSE <<"getKV", "memGet">>
    [] OTHER -> <<"counters">>

\* the awaits of a call, with a remote store configured (on) or not: getKV()
\* first; then /incr and /expire of kvIncr, /get and /setex of
\* getAndSetBinding; the fallback of both has none; bumpCountersAndGetPenalty
\* awaits its three kvIncr together, after it has read the clock
AwaitsOf(op, on) ==
  CASE op = "kvIncr" -> IF on THEN <<"getKV", "incr", "expire">> ELSE <<"getKV">>
    [] op = "getAndSetBinding" -> IF on THEN <<"getKV", "get", "setex">> ELSE <<"getKV">>
    [] OTHER -> <<"counters">>

\* a call that has just been made at time t: suspended at its first await,
\* nothing read and nothing returned
NewCall(op, value, t, on) ==
  [ op |-> op, value |-> value, pc |-> AwaitsOf(op, on)[1], t0 |-> t, at |-> t,
    seen |-> <<>>, n |-> 0, prev |-> NoIp ]

\* the call c returns at time t
Returned(c, n, prev, t) ==
  [c EXCEPT !.pc = "done", !.n = n, !.prev = prev, !.at = t, !.seen = <<>>]

\* what a step of a call leaves: MEM, the remote store and the call
Stepped(m, s, c) == [mem |-> m, redis |-> s, call |-> c]

\* the fallback of kvIncr and of getAndSetBinding from MEM.set on, the entry
\* that memGet returned being the one of seen
fallbackWrite(m, s, c, seen, t) ==
  LET incremented(r) ==
        Stepped(MemPut(memGet(m, CounterKey, t), CounterKey, r.mem[CounterKey]), s,
                Returned(c, r.n, NoIp, t))
      bound(r) ==
        Stepped(MemPut(memGet(m, BindingKey, t), BindingKey, r.mem[BindingKey]), s,
                Returned(c, 0, r.prev, t))
  IN IF c.op = "kvIncr" THEN incremented(kvIncr(seen, CounterKey, WindowTtl, t))
     ELSE bound(getAndSetBinding(seen, BindingKey, c.value, 15 * 60, t))

\* the fallback of kvIncr and of getAndSetBinding: memGet, and MEM.set in the
\* same step unless an await separates them
fallbackRead(m, s, on, c, t) ==
  IF \E i \in DOMAIN AwaitsOf(c.op, on) : AwaitsOf(c.op, on)[i] = "memGet"
  THEN Stepped(m, s, [c EXCEPT !.pc = "memGet", !.seen = m])
  ELSE fallbackWrite(m, s, c, m, t)

\* the address, the fingerprint and the ASN of the requests that are scored
\* together
ArrivalKey == Key("ts", IpHome, "fp-ascii-0123456789", NoAsn, NoText)

\* the behaviour hints of bumpCountersAndGetPenalty when its const now was
\* read at t0 and its three kvIncr have returned at time t: memGet looks at
\* the clock, the entry and the timestamp pushed are made of t0
recordArrivalAt(m, windowSec, t0, t) ==
  LET kept(m1, e, times) == MemPut(m1, ArrivalKey, [e EXCEPT !.times = times])
      pushed(m1, e) == kept(m1, e, LastN(Append(e.times, t0), 10))
      got(m1) == pushed(m1, IF ArrivalKey \in DOMAIN m1 THEN m1[ArrivalKey]
                            ELSE Entry("number", 0, NoIp, Absent, t0 + windowSec, <<>>))
  IN got(memGet(m, ArrivalKey, t))

\* bumpCountersAndGetPenalty from the return of its three kvIncr on: the
\* count, and the timestamp read before the await pushed to the history
bumped(m, s, on, c, t) ==
  LET rl == DefaultRateConfig
      hinted(a, b, r) ==
        Stepped(recordArrivalAt(r.mem, rl.windowSec, c.t0, t), r.redis,
                Returned(c, Max(a.n, Max(b.n, r.n)), NoIp, t))
      third(a, b) ==
        hinted(a, b, kvIncrKv(b.mem, b.redis, on, Key("rate:asn", NoIp, Absent, AsnHome, NoText),
                              rl.windowSec, t, "ok", "ok"))
      second(a) ==
        third(a, kvIncrKv(a.mem, a.redis, on,
                          Key("rate:fp", NoIp, "fp-ascii-0123456789", NoAsn, NoText),
                          rl.windowSec, t, "ok", "ok"))
  IN second(kvIncrKv(m, s, on, CounterKey, rl.windowSec, t, "ok", "ok"))

\* the call c, suspended at c.pc, resumes at time t, the fetch it awaited
\* ending o, and runs to its next await or to its return
resume(m, s, on, c, t, o) ==
  LET counted(s1) ==
        IF s1[CounterKey].num = 1
        THEN Stepped(m, s1, [c EXCEPT !.pc = "expire", !.n = 1])
        ELSE Stepped(m, s1, Returned(c, s1[CounterKey].num, NoIp, t))
  IN CASE c.pc = "counters" -> bumped(m, s, on, c, t)
       [] c.pc = "getKV" /\ on ->
            Stepped(m, s, [c EXCEPT !.pc = AwaitsOf(c.op, on)[2]])
       [] c.pc = "getKV" /\ ~on -> fallbackRead(m, s, on, c, t)
       [] c.pc = "memGet" -> fallbackWrite(m, s, c, c.seen, t)
       [] c.pc = "incr" ->
            IF o = "ok" THEN counted(RedisIncr(s, CounterKey, t))
            ELSE fallbackRead(m, s, FALSE, c, t)
       [] c.pc = "expire" ->
            Stepped(m, IF o = "ok" THEN RedisExpire(s, CounterKey, WindowTtl, t) ELSE s,
                    Returned(c, c.n, NoIp, t))
       [] c.pc = "get" ->
            Stepped(m, s, [c EXCEPT !.pc = "setex",
                                    !.prev = IF /\ o = "ok" /\ RedisLive(s, BindingKey, t)
                                                /\ s[BindingKey].typ = "cidr"
                                             THEN s[BindingKey].cidr ELSE NoIp])
       [] OTHER ->
            Stepped(m, IF o = "ok"
                         THEN MemPut(s, BindingKey,
                                     Entry("cidr", 0, c.value, Absent, t + 15 * 60, <<>>))
                       ELSE s,
                    Returned(c, 0, c.prev, t))

\* the prefixes two clients bind a fingerprint to
BoundValues == {Cidr24(IpHome), Cidr24(IpOther)}

\* a caller makes a call without awaiting those in flight
Invoke(op, value) ==
  /\ Len(flight) < MaxConcurrent
  /\ flight' = Append(flight, NewCall(op, value, now * SecPerTick, cfg.UPSTASH))
  /\ UNCHANGED <<now, signKeyCfg, issued, last, cfg, mem, ipqsCache, asnWatch, handled,
                 redis, calls>>

\* the call i resumes, the fetch it awaited ending o
Resume(i, o) ==
  /\ i \in DOMAIN flight /\ flight[i].pc # "done"
  /\ o = "ok" \/ (cfg.UPSTASH /\ flight[i].pc \in {"incr", "expire", "get", "setex"})
  /\ \E r \in {resume(mem, redis, cfg.UPSTASH, flight[i], now * SecPerTick, o)} :
       /\ mem' = r.mem
       /\ redis' = r.redis
       /\ flight' = [flight EXCEPT ![i] = r.call]
  /\ UNCHANGED <<now, signKeyCfg, issued, last, cfg, ipqsCache, asnWatch, handled, calls>>

InitConcurrent ==
  /\ now = 0 /\ signKeyCfg = ConfiguredKey /\ issued = {}
  /\ last = NoOp /\ cfg = DefaultConfig
  /\ mem = <<>> /\ ipqsCache = <<>> /\ asnWatch = <<>>
  /\ handled = [pages |-> 0, api |-> 0]
  /\ redis = <<>> /\ calls = <<>> /\ flight = <<>>

NextConcurrent ==
  \/ Tick
  \/ Invoke("kvIncr", NoIp)
  \/ \E v \in BoundValues : Invoke("getAndSetBinding", v)
  \/ \E i \in 1..MaxConcurrent : Resume(i, "ok")

SpecConcurrent == InitConcurrent /\ [][NextConcurrent]_vars

\* the calls of op made so far
Made(op) == {i \in DOMAIN flight : flight[i].op = op}

\* the calls of op that have returned
Done(op) == {i \in DOMAIN flight : flight[i].op = op /\ flight[i].pc = "done"}

\* the calls of is returned within ttlSec of each other
Within(is, ttlSec) == \A i, j \in is : flight[i].at - flight[j].at <= ttlSec

\* C31: in the in-process fallback, the kvIncr calls on one key that have
\* returned inside one window, in whatever order they resumed, have returned
\* the distinct values 1..N, and the stored count is N; of two
\* getAndSetBinding calls on one key that have returned, exactly one has the
\* other's value as prev.
C31_FallbackAtomic ==
  ~cfg.UPSTASH =>
    /\ (Done("kvIncr") # {} /\ Within(Done("kvIncr"), WindowTtl)) =>
         /\ {flight[i].n : i \in Done("kvIncr")} = 1..Cardinality(Done("kvIncr"))
         /\ mem[CounterKey].num = Cardinality(Done("kvIncr"))
    /\ \A i, j \in Done("getAndSetBinding") :
         (i # j /\ Made("getAndSetBinding") = {i, j}) =>
           (flight[i].prev = flight[j].value) # (flight[j].prev = flight[i].value)

\* three kvIncr calls in flight together have returned 1, 2 and 3 in another
\* order than they were made
C31_Witness ==
  /\ ~cfg.UPSTASH /\ Cardinality(Done("kvIncr")) = 3
  /\ flight[1].t0 = flight[3].t0 /\ flight[3].n = 1 /\ flight[1].n = 3
  /\ mem[CounterKey].num = 3

-----------------------------------------------------------------------------
(* Tokens of another shape than payload.mac                                 *)

\* what a client can make of the issued token: a segment missing or empty,
\* and the whole token followed by a separator and another segment (empty,
\* one character, the MAC again)
Reshaped(token) ==
  LET parts == Split(token, DOT) IN
  { <<>>, <<DOT>>, parts[1], parts[1] \o <<DOT>>, <<DOT>> \o parts[2],
    token \o <<DOT>>, token \o <<DOT, 120>>, token \o <<DOT>> \o parts[2] }

\* a token that was issued comes back in another shape
VerifyReshaped == \E r \in issued : \E token \in Reshaped(r.token) : Verify(token)

NextShape ==
  \/ Tick
  \/ \E doc \in TokenDocs(now) : Sign(doc)
  \/ VerifyIssued
  \/ VerifyReshaped

SpecShape == Init /\ [][NextShape]_vars

\* whether the token is one non-empty payload segment and one non-empty MAC
\* segment joined by a single separator
TwoSegments(token) ==
  /\ Len(Split(token, DOT)) = 2
  /\ Split(token, DOT)[1] # <<>> /\ Split(token, DOT)[2] # <<>>

\* C32: verifySignedPayload returns null for every token that is not exactly
\* one payload segment and one MAC segment joined by a single separator: a
\* token with a missing or empty segment, and a valid token with another
\* separator-delimited segment appended.
C32_OnlyTwoSegmentsAccepted ==
  (last.op = "verify" /\ ~TwoSegments(last.token)) => ~last.out.ok

\* C33: every counter expires: in every reachable state of the remote store
\* and of MEM a counter created by kvIncr has an expiry set, also when the
\* /expire call that follows a successful first /incr fails.
C33_EveryCounterExpires ==
  /\ \A k \in DOMAIN redis : redis[k].typ = "number" => redis[k].exp # 0
  /\ \A k \in DOMAIN mem : mem[k].typ = "number" => mem[k].exp # 0

-----------------------------------------------------------------------------
(* An accepted submission is posted again                                   *)

\* the most posts of an accepted submission again
MaxReplays == 1

\* the client whose submission the route has just accepted posts the same
\* token and solution again, with the fingerprint hash fp
Replay(fp) ==
  /\ last.op \in {"verify-challenge", "replay"} /\ last.res.ok
  /\ handled.api < MaxApi + MaxReplays
  /\ handled' = [handled EXCEPT !.api = @ + 1]
  /\ \E kv \in getSignKey(signKeyCfg) : \E ks \in getSignKey(signKeyCfg) :
       \E r \in {VerifyHandler([last.req EXCEPT !.body.fpHash = fp], mem, now, kv, ks)} :
         /\ last' = [op |-> "replay", req |-> [last.req EXCEPT !.body.fpHash = fp],
                     at |-> now, res |-> r.res, first |-> last.res.cookie]
         /\ mem' = r.mem
         /\ issued' = IF r.res.cookie # NoText
                      THEN issued \cup {[token |-> r.res.cookie,
                                         text |-> VerifiedText(r.res.cookie, ks).text]}
                      ELSE issued
  /\ UNCHANGED <<now, signKeyCfg, cfg, ipqsCache, asnWatch, storeVars>>

NextReplay ==
  \/ Tick
  \/ \E req \in ChallengedViews : Middleware(req, NoIpqs, FALSE, FALSE)
  \/ \E req \in SessionSubmissions : VerifyChallenge(req)
  \/ \E fp \in {Absent, "fp-ascii-0123456789"} : Replay(fp)

SpecReplay == InitVerify /\ [][NextReplay]_vars

\* C34: once a (token, solution) pair has been accepted by the verification
\* route and a session token issued, the same challenge token submitted again
\* is rejected, so that each challenge token yields at most one session
\* token.
C34_NoReplay ==
  last.op = "replay" => (~last.res.ok /\ last.res.cookie = NoText)

-----------------------------------------------------------------------------
(* What a decision of the rules before the score leaves of the Counter      *)
(* Store                                                                    *)

\* MEM after a page view has been scored at time 0: the three rate counters,
\* the binding of the fingerprint and the timestamp history
MemAfterVisit ==
  isBot(PageView(PathRoot, UaChrome, AcceptHtml, "xff", "none", NoText, NoText,
                 "fp-ascii-0123456789", One),
        DefaultConfig, <<>>, <<>>, <<>>, 0, NoIpqs, FALSE).mem

\* the engine active and inactive; MEM empty and after a scored page view
InitFrame ==
  /\ now = 0 /\ signKeyCfg = ConfiguredKey /\ issued = {}
  /\ last = NoOp /\ cfg \in EngineConfigs
  /\ mem \in {<<>>, MemAfterVisit} /\ ipqsCache = <<>> /\ asnWatch = <<>>
  /\ handled = [pages |-> 0, api |-> 0]
  /\ redis = <<>> /\ calls = <<>> /\ flight = NoFlight

NextFrame ==
  \/ Tick
  \/ \E req \in TrapRequests : Honeytrap(req)
  \/ \E req \in EngineRequests \cup ScoreRequests : \E ptr1 \in BOOLEAN :
       Middleware(req, NoIpqs, ptr1, FALSE)

SpecFrame == InitFrame /\ [][NextFrame]_vars

\* a rule of middleware before the score matches the request: the engine is
\* inactive, the path is excluded, a human_signed cookie is there, the
\* referral is allowlisted, or one of the ban, user-agent, analyzer,
\* automation, address, ASN and reverse-lookup rules applies
DeterministicRule(req, c, ptrAnswer) ==
  \/ ~c.offerUrl \/ ExcludedPath(req.path)
  \/ req.human_signed # NoText \/ isTrustedGoogleRef(req)
  \/ isBanned(req) \/ isBlockedUserAgent(req.ua) \/ isAnalyzerRequest(req)
  \/ isLikelyBrowserAutomation(req)
  \/ isBlacklistedIP(getIP(req)) \/ isBlacklistedASN(getASN(req))
  \/ reversePTRMatches(getIP(req), ptrAnswer)

\* C35: a request that a rule before the score decides (bypass, offer by
\* session or allowlist, safe) is not scored and leaves the rate counters,
\* the fingerprint binding, the honeypot counters and the timestamp history
\* as they were; a request of the engine that changes them has reached the
\* Risk Scorer.
C35_EarlyDecisionsLeaveStore ==
  [][ (handled'.pages > handled.pages /\ last'.req.path # PathWelcome) =>
        /\ DeterministicRule(last'.req, cfg, last'.ptr1) =>
             /\ last'.out.verdict \in {"bypass", "offer", "safe"}
             /\ mem' = mem /\ redis' = redis
        /\ (mem' # mem \/ redis' # redis) => last'.scored ]_vars

\* a crawler's address has been decided safe by the reverse lookup, the
\* counters of an earlier page view and a honeypot hit standing as they were
C35_Witness ==
  /\ last.op = "middleware" /\ last.out.reasons = <<R("ptr:bot")>>
  /\ Key("hp", <<1, 2, 3, 4>>, Absent, NoAsn, NoText) \in DOMAIN mem
  /\ CounterKey \in DOMAIN mem /\ mem[CounterKey].num = 1
  /\ Key("ts", <<1, 2, 3, 4>>, "fp-ascii-0123456789", NoAsn, NoText) \in DOMAIN mem

-----------------------------------------------------------------------------
(* The provider tag of a challenge and of its verification request          *)

\* the page views whose provider is examined: through a generic proxy,
\* through Vercel, through Cloudflare Workers, and through Vercel with
\* Cloudflare in front of it (cf-connecting-ip and x-vercel-id, req.geo, no
\* req.cf)
ProviderViews ==
  { PageView(PathRoot, UaChrome, AcceptHtml, "xff", "none", NoText, NoText,
             "fp-ascii-0123456789", One),
    PageView(PathRoot, UaChrome, AcceptHtml, "vercel", "none", NoText, NoText, Absent, NoText),
    PageView(PathRoot, UaChrome, AcceptHtml, "cloudflare", "none", NoText, NoText, Absent,
             NoText),
    [PageView(PathRoot, UaChrome, AcceptHtml, "vercel", "none", NoText, NoText, Absent, NoText)
       EXCEPT !.cfip = IpHome] }

\* the POST of the client of the page view req: the same address headers and
\* the same x-vercel-id, with the token and a solution
SameClientPost(req, token, solution) ==
  [ BareApiRequest("POST") EXCEPT
      !.cfip = req.cfip, !.tcip = req.tcip, !.xri = req.xri, !.xff = req.xff,
      !.vercelId = req.vercelId,
      !.body = [token |-> token, solution |-> solution, webgl |-> Absent, fpHash |-> Absent] ]

NextProvider ==
  \/ Tick
  \/ \E req \in ProviderViews : Middleware(req, NoIpqs, FALSE, FALSE)
  \/ \E req \in ProviderViews : \E tok \in IssuedTokens :
       \E sol \in {Digits(SolveFrom(tok, 0)), Digits(SolveFrom(tok, 0) + 1), NoText} :
         VerifyChallenge(SameClientPost(req, tok, sol))

SpecProvider == InitVerify /\ [][NextProvider]_vars

\* the route answers the client that the engine has just challenged: the
\* post carries the headers of the page view and the token served
AnswersChallenged ==
  /\ last.op = "middleware" /\ last.out.verdict = "challenge"
  /\ last'.op = "verify-challenge"
  /\ last'.req = SameClientPost(last.req, last.out.token, last'.req.body.solution)

\* C36: for an unchanged client the provider tag the engine writes into a
\* challenge token equals the one the verification route computes for the
\* verification request, so that a correctly solved, unexpired challenge from
\* the same /24 is not rejected.
C36_SameClientSameProvider ==
  [][ AnswersChallenged =>
        /\ ChallengeProvider(last.req) = getReqProvider(last'.req)
        /\ ( /\ PowOk(last'.req.body.token, last'.req.body.solution)
             /\ last'.at <= last.at + ChallengeTtl
             /\ sameCidr24(getIp(last'.req), getIP(last.req)) ) => last'.res.ok ]_vars

-----------------------------------------------------------------------------
(* Concurrent calls with a remote store configured                          *)

InitRace ==
  /\ now = 0 /\ signKeyCfg = ConfiguredKey /\ issued = {}
  /\ last = NoOp /\ cfg = [DefaultConfig EXCEPT !.UPSTASH = TRUE]
  /\ mem = <<>> /\ ipqsCache = <<>> /\ asnWatch = <<>>
  /\ handled = [pages |-> 0, api |-> 0]
  /\ redis = <<>> /\ calls = <<>> /\ flight = <<>>

\* the store answers every /get and /setex; an /incr or an /expire may be
\* answered with a non-success status
NextRace ==
  \/ Tick
  \/ Invoke("kvIncr", NoIp)
  \/ \E v \in BoundValues : Invoke("getAndSetBinding", v)
  \/ \E i \in 1..MaxConcurrent : \E o \in {"ok", "fail"} :
       /\ i \in DOMAIN flight
       /\ o = "ok" \/ flight[i].op = "kvIncr"
       /\ Resume(i, o)

SpecRace == InitRace /\ [][NextRace]_vars

\* C37: with a remote store configured, when two getAndSetBinding calls on
\* the same key with different values have both returned, one of them has the
\* other's value as prev, in every interleaving of their /get and /setex: the
\* two never both report the same older value.
C37_OneSeesTheOther ==
  cfg.UPSTASH =>
    \A i, j \in Done("getAndSetBinding") :
      (Made("getAndSetBinding") = {i, j} /\ flight[i].value # flight[j].value) =>
        (flight[i].prev = flight[j].value \/ flight[j].prev = flight[i].value)

-----------------------------------------------------------------------------
(* Requests of one client scored at the same time                           *)

InitArrivals ==
  /\ now = 0 /\ signKeyCfg = ConfiguredKey /\ issued = {}
  /\ last = NoOp /\ cfg \in WatchConfigs
  /\ mem = <<>> /\ ipqsCache = <<>> /\ asnWatch = <<>>
  /\ handled = [pages |-> 0, api |-> 0]
  /\ redis = <<>> /\ calls = <<>> /\ flight = <<>>

NextArrivals ==
  \/ Tick
  \/ Invoke("bumpCountersAndGetPenalty", NoIp)
  \/ \E i \in 1..MaxConcurrent : Resume(i, "ok")

SpecArrivals == InitArrivals /\ [][NextArrivals]_vars

\* C38: the timestamp history kept per (address, fingerprint) key is
\* non-decreasing in every reachable state, under any interleaving of the
\* requests for the key, so that every interval between two arrivals is
\* greater than or equal to 0.
C38_HistoryNonDecreasing ==
  \A k \in DOMAIN mem : \A i \in 1..(Len(mem[k].times) - 1) :
    mem[k].times[i + 1] - mem[k].times[i] >= 0

\* the call j is made in the window that the first kvIncr on its key opened
InFirstWindow(j) ==
  \A f \in 1..j : (calls[f].op = "kvIncr" /\ calls[f].key = calls[j].key) => WithinTtl(f, j)

\* C39: within one window the counts returned by successive kvIncr calls on
\* the same key increase by exactly one per call, for every mix of calls
\* served by the remote store and calls served by the fallback after a remote
\* failure.
C39_CountsIncreaseByOne ==
  \A i, j \in DOMAIN calls :
    ( /\ i < j /\ calls[i].op = "kvIncr" /\ calls[j].op = "kvIncr"
      /\ calls[i].key = calls[j].key
      /\ \A k \in (i + 1)..(j - 1) : calls[k].op # "kvIncr"
      /\ ~calls[i].raised /\ ~calls[j].raised /\ InFirstWindow(j) )
    => calls[j].n = calls[i].n + 1

\* C40: under the default weights and thresholds a request that reaches the
\* Risk Scorer through the Decision Engine without a valid fingerprint cookie
\* and without the human-activity cookies is never decided offer: its
\* probability is at least 0.46, and it is challenged or decided safe.
C40_NoPassWithoutCookies ==
  ( /\ last.op = "middleware" /\ last.scored /\ cfg = DefaultConfig
    /\ ~fingerprintValid(last.req) /\ ~hasHumanActivity(last.req) ) =>
    /\ last.p >= 4600
    /\ last.out.verdict \in {"challenge", "safe"}

\* a request through Cloudflare with a TLS cipher and no cookie has the
\* probability 0.46 and is challenged
C40_Witness ==
  /\ last.op = "middleware" /\ last.scored /\ cfg = DefaultConfig
  /\ last.req.fp = Absent /\ last.req.act = NoText
  /\ last.req.cf.present /\ last.p = 4600 /\ last.out.verdict = "challenge"

=============================================================================
